---------------------------- MODULE Spec2Model ----------------------------
(***************************************************************************)
(* miniPaint RexxJS control surface: the command parser and dispatch table *)
(* (minipaint-rexx-handler.js), and the postMessage RPC control bus        *)
(* (minipaint-controlbus.js: MiniPaintWorkerBridge, MiniPaintDirectorBridge)*)
(* and the execute-rexx meta-command (execute-rexx.js).                    *)
(*                                                                         *)
(* Representation of JavaScript data:                                      *)
(*  - a command string is a sequence of lexemes (TLA+ strings); its text   *)
(*    is their concatenation.  " " and "\t" are the whitespace lexemes,    *)
(*    "=" is the separator lexeme, every other lexeme holds neither.       *)
(*  - a JS value is a tagged record (Undef, Str, Num, Bool); numbers are   *)
(*    held in tenths (Num(5) is 0.5, Num(8000) is 800).                    *)
(*  - a params object is a function from its own keys to JS values.        *)
(***************************************************************************)
EXTENDS Integers, Sequences, FiniteSets, TLC

VARIABLES
    app,              \* the Editor Capability Provider: the set of property paths of `app` that are present
    provLog,          \* calls the worker's dispatches made on the provider, in order
    lastCall,         \* in-process path: the call of run (command, params, provider, provider outcome)
    lastRan,          \* in-process path: what that call did (envelope, handler invoked, args, provider calls)
    metaRan,          \* in-process path: the call of the handler wrapped by setupRexxScriptExecution, and what it did
    requestId,        \* MiniPaintDirectorBridge.requestId
    pendingRequests,  \* MiniPaintDirectorBridge.pendingRequests: id -> entry
    timers,           \* ids whose setTimeout timer is armed
    promise,          \* id -> state of the promise returned by sendRPC
    settles,          \* id -> number of times the promise's resolve/reject was called
    calls,            \* id -> what the caller asked (kind of call, command, method, params)
    sendLog,          \* ids in the order sendRPC allocated them
    reqQueue,         \* messages posted to the worker frame, not yet delivered
    running,          \* worker: dispatches started whose response is not posted yet
    inbox,            \* messages posted to the director frame, not yet delivered
    addrResult,       \* id -> envelope the ADDRESS handler returned for that call
    otherInbox,       \* messages the worker posted to a window that is not the director's
    foreign,          \* messages other windows have posted to the worker frame
    uncaught,         \* exceptions that have escaped the bridges' message listeners
    parses,           \* the calls of handler.parseCommand made so far: command string and what was returned
    second            \* a second MiniPaintDirectorBridge in the director's window: its requestId, pendingRequests and promises

vars == <<app, provLog, lastCall, lastRan, metaRan, requestId,
          pendingRequests, timers, promise, settles, calls, sendLog, reqQueue,
          running, inbox, addrResult, otherInbox, foreign, uncaught, parses, second>>

dispatchVars == <<lastCall, lastRan, metaRan, parses>>
busVars == <<requestId, pendingRequests, timers, promise, settles, calls,
             sendLog, reqQueue, running, inbox, addrResult, otherInbox, foreign,
             uncaught, second>>

---------------------------------------------------------------------------
(* JavaScript values *)

Undef == [t |-> "undefined"]
Str(s) == [t |-> "string", s |-> s]
Num(n) == [t |-> "number", n |-> n]
Bool(b) == [t |-> "boolean", b |-> b]

\* ToBoolean
Truthy(v) ==
    CASE v.t = "undefined" -> FALSE
      [] v.t = "string" -> v.s # ""
      [] v.t = "number" -> v.n # 0
      [] v.t = "boolean" -> v.b

\* Number::toString of a number held in tenths
NumToString(n) ==
    LET a == IF n < 0 THEN 0 - n ELSE n
        sign == IF n < 0 THEN "-" ELSE ""
    IN IF a % 10 = 0 THEN sign \o ToString(a \div 10)
       ELSE sign \o ToString(a \div 10) \o "." \o ToString(a % 10)

\* ToString, as a template literal `${v}` applies it
ToStr(v) ==
    CASE v.t = "undefined" -> "undefined"
      [] v.t = "string" -> v.s
      [] v.t = "number" -> NumToString(v.n)
      [] v.t = "boolean" -> IF v.b THEN "true" ELSE "false"

\* JSON.stringify of a primitive value
JsonOf(v) ==
    IF v.t = "string" THEN "\"" \o v.s \o "\"" ELSE ToStr(v)

\* Number(text) for the lexemes of the model's alphabet, in tenths; any
\* text outside the table is not a numeric literal (isNaN)
NumericLiterals ==
    ("0" :> 0) @@ ("1" :> 10) @@ ("2" :> 20) @@ ("5" :> 50) @@ ("90" :> 900) @@
    ("400" :> 4000) @@ ("600" :> 6000) @@ ("800" :> 8000) @@
    ("0.5" :> 5) @@ ("1.5" :> 15) @@ ("1.50" :> 15) @@ ("-1" :> -10) @@
    ("1e3" :> 10000)

\* params[key]
Get(params, key) == IF key \in DOMAIN params THEN params[key] ELSE Undef

NoParams == [k \in {} |-> Undef]

\* params[key] = value
Put(params, key, value) == (key :> value) @@ params

\* const { name, ...rest } = params
Without(params, key) == [k \in (DOMAIN params) \ {key} |-> params[k]]

---------------------------------------------------------------------------
(* String operations of the parser *)

Whitespace == {" ", "\t"}

RECURSIVE Join(_)
Join(s) == IF s = <<>> THEN "" ELSE Head(s) \o Join(Tail(s))

RECURSIVE TrimLeft(_)
TrimLeft(s) ==
    IF s # <<>> /\ Head(s) \in Whitespace THEN TrimLeft(Tail(s)) ELSE s

RECURSIVE TrimRight(_)
TrimRight(s) ==
    IF s # <<>> /\ s[Len(s)] \in Whitespace
    THEN TrimRight(SubSeq(s, 1, Len(s) - 1)) ELSE s

\* String.prototype.trim
Trim(s) == TrimRight(TrimLeft(s))

\* the length of the longest prefix of s holding no lexeme of `seps`
RECURSIVE RunLength(_, _)
RunLength(s, seps) ==
    IF s = <<>> \/ Head(s) \in seps THEN 0 ELSE 1 + RunLength(Tail(s), seps)

\* split(/\s+/) of a trimmed string
RECURSIVE SplitTrimmed(_)
SplitTrimmed(s) ==
    LET n == RunLength(s, Whitespace)
        rest == TrimLeft(SubSeq(s, n + 1, Len(s)))
    IN IF rest = <<>> THEN <<SubSeq(s, 1, n)>>
       ELSE <<SubSeq(s, 1, n)>> \o SplitTrimmed(rest)

\* commandString.trim().split(/\s+/): "" splits to [""]
SplitWhitespace(s) == SplitTrimmed(Trim(s))

\* token.split('=')
RECURSIVE SplitEquals(_)
SplitEquals(s) ==
    LET n == RunLength(s, {"="})
    IN IF n = Len(s) THEN <<s>>
       ELSE <<SubSeq(s, 1, n)>> \o SplitEquals(SubSeq(s, n + 2, Len(s)))

\* the value-type parsing without its boolean cases
Coerce_NoBooleans(value) ==
    IF value \in DOMAIN NumericLiterals /\ value # ""
    THEN Num(NumericLiterals[value])
    ELSE Str(value)

\* the value-type parsing of a key=value token
Coerce(value) ==
    IF value = "true" THEN Bool(TRUE)
    ELSE IF value = "false" THEN Bool(FALSE)
    ELSE IF value \in DOMAIN NumericLiterals /\ value # ""
         THEN Num(NumericLiterals[value])
    ELSE Str(value)

\* the loop over parts[1..] shared by parseCommand and createAddressHandler
RECURSIVE ParseTokens(_, _)
ParseTokens(parts, params) ==
    IF parts = <<>> THEN params
    ELSE LET pieces == SplitEquals(Head(parts))
             key == Join(pieces[1])
         IN IF key # "" /\ Len(pieces) >= 2
            THEN ParseTokens(Tail(parts), Put(params, key, Coerce(Join(pieces[2]))))
            ELSE ParseTokens(Tail(parts), params)

parseCommand(commandString) ==
    LET parts == SplitWhitespace(commandString)
    IN [method |-> Join(parts[1]), params |-> ParseTokens(Tail(parts), NoParams)]

---------------------------------------------------------------------------
(* The Editor Capability Provider, as the handlers see it.  `a` is the set *)
(* of property paths present on `app`; `o` is what the provider does when  *)
(* called: o.fail (the callable throws or rejects), o.thrown (what it      *)
(* throws: an Error, or undefined as a bare reject() does), o.w and o.h    *)
(* (the size getCanvasSize reports), o.layer (what addLayer returns).      *)

ProviderMessage == "provider failure"

Has(a, path) == path \in a

HasImageAction(a, name) ==
    Has(a, "Actions") /\ Has(a, "Actions.Image") /\ Has(a, "Actions.Image." \o name)

HasFilter(a, name) ==
    Has(a, "Actions") /\ Has(a, "Actions.Filters") /\ Has(a, "Actions.Filters." \o name)

HasLayerOp(a, name) == Has(a, "Layers") /\ Has(a, "Layers." \o name)

HasStateOp(a, name) == Has(a, "State") /\ Has(a, "State." \o name)

\* a call made on the provider
Call(fn, args) == [fn |-> fn, args |-> args]

\* what a handler returns: the partial envelope (errorCode 0 stands for a
\* missing errorCode, which run reads with `|| 0`; result is a JS value,
\* Undef when the handler sets none) and the provider calls it made
Ret(success, errorCode, output, result, pcalls) ==
    [threw |-> FALSE, success |-> success, errorCode |-> errorCode, output |-> output,
     result |-> result, calls |-> pcalls]

\* the handler's promise rejects: its catch block reads error.message of
\* undefined, and the TypeError of that read leaves the handler
CatchThrows ==
    [threw |-> TRUE, success |-> FALSE, errorCode |-> 0,
     output |-> "Cannot read properties of undefined (reading 'message')",
     result |-> Undef, calls |-> <<>>]

\* catch (error) { return { success: false, errorCode: code9, output: error.message } }
HandlerCatch(o, code9, pcalls) ==
    IF o.thrown = "undefined" THEN [CatchThrows EXCEPT !.calls = pcalls]
    ELSE Ret(FALSE, code9, ProviderMessage, Undef, pcalls)

Fail(errorCode, output) == Ret(FALSE, errorCode, output, Undef, <<>>)

\* try { await provider(...); return ok } catch (error) { return code9 }
Invoke(o, call, code9, okOutput, okResult) ==
    IF o.fail THEN HandlerCatch(o, code9, <<call>>)
    ELSE Ret(TRUE, 0, okOutput, okResult, <<call>>)

validEffects ==
    <<"blur", "sharpen", "emboss", "sepia", "invert", "posterize",
      "grayscale", "brightness", "contrast", "saturation">>

Range(s) == {s[i] : i \in DOMAIN s}

RECURSIVE JoinWith(_, _)
JoinWith(s, sep) ==
    IF s = <<>> THEN ""
    ELSE IF Len(s) = 1 THEN s[1]
    ELSE s[1] \o sep \o JoinWith(Tail(s), sep)

openImage(a, params, o) ==
    LET file == Get(params, "file")
    IN IF ~Truthy(file) THEN Fail(10, "file parameter required")
       ELSE IF Has(a, "FileOpen") /\ Has(a, "FileOpen.readImageFile")
            THEN Ret(TRUE, 0, "Loaded image: " \o ToStr(file), Undef, <<>>)
       ELSE Fail(11, "FileOpen not available")

\* resize testing the capability before its parameters
resize_AvailabilityFirst(a, params, o) ==
    LET width == Get(params, "width")
        height == Get(params, "height")
    IN IF ~HasImageAction(a, "resize") THEN Fail(21, "Resize action not available")
       ELSE IF ~Truthy(width) \/ ~Truthy(height)
            THEN Fail(20, "width and height parameters required")
       ELSE Invoke(o, Call("Actions.Image.resize", <<width, height>>), 29,
                   "Resized to " \o ToStr(width) \o "x" \o ToStr(height), Undef)

resize(a, params, o) ==
    LET width == Get(params, "width")
        height == Get(params, "height")
    IN IF ~Truthy(width) \/ ~Truthy(height)
       THEN Fail(20, "width and height parameters required")
       ELSE IF HasImageAction(a, "resize")
            THEN Invoke(o, Call("Actions.Image.resize", <<width, height>>), 29,
                        "Resized to " \o ToStr(width) \o "x" \o ToStr(height), Undef)
       ELSE Fail(21, "Resize action not available")

rotate(a, params, o) ==
    LET angle == Get(params, "angle")
    IN IF angle = Undef THEN Fail(30, "angle parameter required")
       ELSE IF HasImageAction(a, "rotate")
            THEN Invoke(o, Call("Actions.Image.rotate", <<angle>>), 39,
                        "Rotated by " \o ToStr(angle) \o " degrees", Undef)
       ELSE Fail(31, "Rotate action not available")

\* flip without the membership test on direction
flip_TruthyOnly(a, params, o) ==
    LET direction == Get(params, "direction")
    IN IF ~Truthy(direction)
       THEN Fail(40, "direction must be \"horizontal\" or \"vertical\"")
       ELSE IF HasImageAction(a, "flip")
            THEN Invoke(o, Call("Actions.Image.flip", <<direction>>), 49,
                        "Flipped " \o ToStr(direction), Undef)
       ELSE Fail(41, "Flip action not available")

flip(a, params, o) ==
    LET direction == Get(params, "direction")
    IN IF ~Truthy(direction) \/ direction \notin {Str("horizontal"), Str("vertical")}
       THEN Fail(40, "direction must be \"horizontal\" or \"vertical\"")
       ELSE IF HasImageAction(a, "flip")
            THEN Invoke(o, Call("Actions.Image.flip", <<direction>>), 49,
                        "Flipped " \o ToStr(direction), Undef)
       ELSE Fail(41, "Flip action not available")

crop(a, params, o) ==
    LET x1 == Get(params, "x1")
        y1 == Get(params, "y1")
        x2 == Get(params, "x2")
        y2 == Get(params, "y2")
    IN IF x1 = Undef \/ y1 = Undef \/ x2 = Undef \/ y2 = Undef
       THEN Fail(50, "x1, y1, x2, y2 parameters required")
       ELSE IF HasImageAction(a, "crop")
            THEN Invoke(o, Call("Actions.Image.crop", <<x1, y1, x2, y2>>), 59,
                        "Cropped to (" \o ToStr(x1) \o "," \o ToStr(y1) \o ")-("
                            \o ToStr(x2) \o "," \o ToStr(y2) \o ")", Undef)
       ELSE Fail(51, "Crop action not available")

applyEffect(a, params, o) ==
    LET name == Get(params, "name")
        effectParams == Without(params, "name")
    IN IF ~Truthy(name) THEN Fail(60, "name parameter required")
       ELSE IF name.t # "string" \/ name.s \notin Range(validEffects)
            THEN Fail(61, "Unknown effect: " \o ToStr(name))
       ELSE IF HasFilter(a, name.s)
            THEN Invoke(o, Call("Actions.Filters." \o name.s, <<effectParams>>), 69,
                        "Applied effect: " \o name.s, Undef)
       ELSE Fail(62, "Effect " \o name.s \o " not available")

addLayer(a, params, o) ==
    LET name == IF Get(params, "name") = Undef THEN Str("Layer") ELSE Get(params, "name")
    IN IF HasLayerOp(a, "addLayer")
       THEN Invoke(o, Call("Layers.addLayer", <<name>>), 79,
                   "Added layer: " \o ToStr(name),
                   IF o.layer = Undef THEN Str("") ELSE o.layer)
       ELSE Fail(71, "addLayer not available")

deleteLayer(a, params, o) ==
    LET id == Get(params, "id")
    IN IF id = Undef THEN Fail(80, "id parameter required")
       ELSE IF HasLayerOp(a, "deleteLayer")
            THEN Invoke(o, Call("Layers.deleteLayer", <<id>>), 89,
                        "Deleted layer: " \o ToStr(id), Undef)
       ELSE Fail(81, "deleteLayer not available")

mergeLayers(a, params, o) ==
    IF HasLayerOp(a, "mergeLayers")
    THEN Invoke(o, Call("Layers.mergeLayers", <<>>), 99, "Merged all layers", Undef)
    ELSE Fail(91, "mergeLayers not available")

\* ToNumber(v) is NaN
IsNaN(v) ==
    \/ v.t = "undefined"
    \/ v.t = "string" /\ v.s # "" /\ v.s \notin DOMAIN NumericLiterals

\* ToNumber of a value that is not NaN, in tenths
ToNumber(v) ==
    CASE v.t = "number" -> v.n
      [] v.t = "boolean" -> IF v.b THEN 10 ELSE 0
      [] v.t = "string" -> IF v.s = "" THEN 0 ELSE NumericLiterals[v.s]

\* the test without its upper bound
OutsideUnitRange_LowerOnly(v) ==
    IF IsNaN(v) THEN FALSE ELSE ToNumber(v) < 0

\* v < 0 || v > 1: every comparison with NaN is false
OutsideUnitRange(v) ==
    IF IsNaN(v) THEN FALSE ELSE ToNumber(v) < 0 \/ ToNumber(v) > 10

setOpacity(a, params, o) ==
    LET layer == Get(params, "layer")
        opacity == Get(params, "opacity")
    IN IF layer = Undef \/ opacity = Undef
       THEN Fail(100, "layer and opacity parameters required")
       ELSE IF OutsideUnitRange(opacity)
            THEN Fail(101, "opacity must be between 0 and 1")
       ELSE IF HasLayerOp(a, "setOpacity")
            THEN Invoke(o, Call("Layers.setOpacity", <<layer, opacity>>), 109,
                        "Set layer " \o ToStr(layer) \o " opacity to " \o ToStr(opacity),
                        Undef)
       ELSE Fail(102, "setOpacity not available")

saveImage(a, params, o) ==
    LET output == Get(params, "output")
        format == IF Get(params, "format") = Undef THEN Str("png") ELSE Get(params, "format")
    IN IF ~Truthy(output) THEN Fail(110, "output parameter required")
       ELSE IF Has(a, "FileSave") /\ Has(a, "FileSave.saveFile")
            THEN Invoke(o, Call("FileSave.saveFile", <<output, format>>), 119,
                        "Saved image: " \o ToStr(output), Undef)
       ELSE Fail(111, "saveFile not available")

\* getCanvasSize giving the size as text in result, as it does in output
getCanvasSize_TextResult(a, params, o) ==
    IF HasStateOp(a, "getCanvasSize")
    THEN Invoke(o, Call("State.getCanvasSize", <<>>), 129,
                "Canvas size: " \o NumToString(o.w) \o "x" \o NumToString(o.h),
                Str(NumToString(o.w) \o "x" \o NumToString(o.h)))
    ELSE Fail(121, "getCanvasSize not available")

getCanvasSize(a, params, o) ==
    IF HasStateOp(a, "getCanvasSize")
    THEN Invoke(o, Call("State.getCanvasSize", <<>>), 129,
                "Canvas size: " \o NumToString(o.w) \o "x" \o NumToString(o.h),
                Str("{\"width\":" \o NumToString(o.w) \o ",\"height\":"
                        \o NumToString(o.h) \o "}"))
    ELSE Fail(121, "getCanvasSize not available")

\* the data URL the provider's getImageData returns
DataUrl == "data:image/png;base64,AAAA"

getImageData(a, params, o) ==
    IF HasStateOp(a, "getImageData")
    THEN Invoke(o, Call("State.getImageData", <<>>), 139,
                "Retrieved image data", Str(DataUrl))
    ELSE Fail(131, "getImageData not available")

\* the provider calls of getImageInfo's optional chains, in source order
ImageInfoCalls(a) ==
    (IF HasLayerOp(a, "getLayerCount") THEN <<Call("Layers.getLayerCount", <<>>)>> ELSE <<>>)
    \o (IF HasLayerOp(a, "getCurrentLayer") THEN <<Call("Layers.getCurrentLayer", <<>>)>> ELSE <<>>)

getImageInfo(a, params, o) ==
    LET pcalls == ImageInfoCalls(a)
        canvasWidth == IF Has(a, "State.canvas") THEN o.w ELSE 0
        canvasHeight == IF Has(a, "State.canvas") THEN o.h ELSE 0
        layerCount == IF HasLayerOp(a, "getLayerCount") THEN 10 * Len(o.layers) ELSE 0
        currentLayer == IF HasLayerOp(a, "getCurrentLayer") /\ o.layer.t = "number"
                        THEN o.layer.n ELSE 0
    IN IF Has(a, "State")
       THEN IF o.fail /\ pcalls # <<>>
            THEN HandlerCatch(o, 149, <<pcalls[1]>>)
            ELSE Ret(TRUE, 0, "Retrieved image info",
                     Str("{\"canvasWidth\":" \o NumToString(canvasWidth)
                         \o ",\"canvasHeight\":" \o NumToString(canvasHeight)
                         \o ",\"layerCount\":" \o NumToString(layerCount)
                         \o ",\"currentLayer\":" \o NumToString(currentLayer) \o "}"),
                     pcalls)
       ELSE Fail(141, "State not available")

RECURSIVE JsonStrings(_)
JsonStrings(s) ==
    IF s = <<>> THEN ""
    ELSE IF Len(s) = 1 THEN "\"" \o s[1] \o "\""
    ELSE "\"" \o s[1] \o "\"," \o JsonStrings(Tail(s))

listEffects(a, params, o) ==
    Ret(TRUE, 0, "Available effects: " \o JoinWith(validEffects, ", "),
        Str("[" \o JsonStrings(validEffects) \o "]"), <<>>)

\* JSON.stringify of the layer list; the layer named o.layers[i] has id i
RECURSIVE JsonLayers(_, _)
JsonLayers(names, i) ==
    IF i > Len(names) THEN ""
    ELSE "{\"id\":" \o ToString(i) \o ",\"name\":\"" \o names[i] \o "\",\"opacity\":1}"
         \o (IF i < Len(names) THEN "," ELSE "") \o JsonLayers(names, i + 1)

listLayers(a, params, o) ==
    IF HasLayerOp(a, "getLayerList")
    THEN Invoke(o, Call("Layers.getLayerList", <<>>), 169,
                "Layers: " \o JoinWith(o.layers, ", "),
                Str("[" \o JsonLayers(o.layers, 1) \o "]"))
    ELSE Fail(161, "getLayerList not available")

\* newImage handing the provider what params holds, without defaults
newImage_NoDefaults(a, params, o) ==
    LET width == Get(params, "width")
        height == Get(params, "height")
    IN IF HasImageAction(a, "newImage")
       THEN Invoke(o, Call("Actions.Image.newImage", <<width, height>>), 179,
                   "Created new image: " \o ToStr(width) \o "x" \o ToStr(height), Undef)
       ELSE Fail(171, "newImage not available")

newImage(a, params, o) ==
    LET width == IF Get(params, "width") = Undef THEN Num(8000) ELSE Get(params, "width")
        height == IF Get(params, "height") = Undef THEN Num(6000) ELSE Get(params, "height")
    IN IF HasImageAction(a, "newImage")
       THEN Invoke(o, Call("Actions.Image.newImage", <<width, height>>), 179,
                   "Created new image: " \o ToStr(width) \o "x" \o ToStr(height), Undef)
       ELSE Fail(171, "newImage not available")

undo(a, params, o) ==
    IF HasStateOp(a, "undo")
    THEN Invoke(o, Call("State.undo", <<>>), 189, "Undo performed", Undef)
    ELSE Fail(181, "undo not available")

redo(a, params, o) ==
    IF HasStateOp(a, "redo")
    THEN Invoke(o, Call("State.redo", <<>>), 199, "Redo performed", Undef)
    ELSE Fail(191, "redo not available")

---------------------------------------------------------------------------
(* The dispatch table *)

\* the own keys of this.handlers
RegisteredMethods ==
    {"open-image", "resize", "rotate", "flip", "crop", "apply-effect",
     "add-layer", "delete-layer", "merge-layers", "set-opacity", "save-image",
     "get-canvas-size", "get-image-data", "get-image-info", "list-effects",
     "list-layers", "new-image", "undo", "redo"}

\* this.handlers[method](args), for an own key
CallHandler(method, a, args, o) ==
    CASE method = "open-image" -> openImage(a, args, o)
      [] method = "resize" -> resize(a, args, o)
      [] method = "rotate" -> rotate(a, args, o)
      [] method = "flip" -> flip(a, args, o)
      [] method = "crop" -> crop(a, args, o)
      [] method = "apply-effect" -> applyEffect(a, args, o)
      [] method = "add-layer" -> addLayer(a, args, o)
      [] method = "delete-layer" -> deleteLayer(a, args, o)
      [] method = "merge-layers" -> mergeLayers(a, args, o)
      [] method = "set-opacity" -> setOpacity(a, args, o)
      [] method = "save-image" -> saveImage(a, args, o)
      [] method = "get-canvas-size" -> getCanvasSize(a, args, o)
      [] method = "get-image-data" -> getImageData(a, args, o)
      [] method = "get-image-info" -> getImageInfo(a, args, o)
      [] method = "list-effects" -> listEffects(a, args, o)
      [] method = "list-layers" -> listLayers(a, args, o)
      [] method = "new-image" -> newImage(a, args, o)
      [] method = "undo" -> undo(a, args, o)
      [] method = "redo" -> redo(a, args, o)

\* keys that this.handlers[method] finds on Object.prototype and whose value,
\* called as handler(args) with no receiver, returns (Object returns args,
\* toString returns "[object Undefined]")
InheritedReturning == {"constructor", "toString"}

\* keys found on Object.prototype whose value throws a TypeError when called
\* as handler(args): methods that need a receiver, and __proto__, whose
\* value is an object and not callable
InheritedThrowing ==
    {"valueOf", "hasOwnProperty", "isPrototypeOf", "propertyIsEnumerable",
     "toLocaleString", "__proto__"}

\* what handler(args) returns for an inherited key, read as run reads a
\* handler's result: Object(args) is args itself, so its success and
\* errorCode are the command's own parameters; toString returns a string,
\* which has none of the fields
InheritedResult(method, args) ==
    IF method = "constructor"
    THEN Ret(Get(args, "success") # Bool(FALSE),
             IF Get(args, "errorCode").t = "number" THEN Get(args, "errorCode").n \div 10 ELSE 0,
             "", Undef, <<>>)
    ELSE Ret(TRUE, 0, "", Undef, <<>>)

TypeErrorMessage(method) ==
    IF method = "__proto__" THEN "handler is not a function"
    ELSE "Cannot convert undefined or null to object"

\* a command string, as a JS value
Cmd(lexemes) == [t |-> "string", lex |-> lexemes]

\* the text of a command value in a template literal
CmdText(c) == IF c.t = "string" THEN Join(c.lex) ELSE ToStr(c)

\* a Response Envelope; result is Undef when the envelope has no result field
Env(success, errorCode, output, result) ==
    [success |-> success, errorCode |-> errorCode, output |-> output, result |-> result]

\* what one call of run did: the envelope returned, the handler invoked
\* ("" if none), the args it was given and the provider calls made
Ran(env, handler, args, pcalls) ==
    [env |-> env, handler |-> handler, args |-> args, calls |-> pcalls]

\* lines 72-81: the method and args run works with
runParsed(commandString, params) ==
    IF commandString.t = "string" THEN parseCommand(commandString.lex)
    ELSE [method |-> ToStr(commandString), params |-> params]

\* lines 93-99: the handler's partial result made a full envelope
Normalize(r) ==
    Env(r.success, r.errorCode, r.output, IF Truthy(r.result) THEN r.result ELSE Str(""))

\* the failure leaves run: its caller's await throws
Caught_Rethrown(message) == [threw |-> TRUE, message |-> message]

\* lines 100-106: catch (error) of run
Caught(message) == Env(FALSE, 99, "Error: " \o message, Undef)

\* lines 83-106, for an initialized provider
runLookup(a, method, args, o) ==
    IF method \in RegisteredMethods
    THEN LET r == CallHandler(method, a, args, o)
         IN IF r.threw THEN Ran(Caught(r.output), method, args, r.calls)
            ELSE Ran(Normalize(r), method, args, r.calls)
    ELSE IF method \in InheritedReturning
         THEN Ran(Normalize(InheritedResult(method, args)), method, args, <<>>)
    ELSE IF method \in InheritedThrowing
         THEN Ran(Caught(TypeErrorMessage(method)), method, args, <<>>)
    ELSE Ran(Env(FALSE, 2, "Unknown command: " \o method, Undef), "", NoParams, <<>>)

\* run with the method lookup done before the initialization check
run_LookupFirst(a, commandString, params, o) ==
    LET parsed == runParsed(commandString, params)
    IN IF parsed.method \notin RegisteredMethods
       THEN Ran(Env(FALSE, 2, "Unknown command: " \o parsed.method, Undef), "", NoParams, <<>>)
       ELSE IF ~Has(a, "Layers")
            THEN Ran(Env(FALSE, 1, "miniPaint not initialized", Undef), "", NoParams, <<>>)
       ELSE runLookup(a, parsed.method, parsed.params, o)

\* MiniPaintRexxHandler.run(commandString, params, sourceContext)
run(a, commandString, params, o) ==
    IF ~Has(a, "Layers")
    THEN Ran(Env(FALSE, 1, "miniPaint not initialized", Undef), "", NoParams, <<>>)
    ELSE LET parsed == runParsed(commandString, params)
         IN runLookup(a, parsed.method, parsed.params, o)

---------------------------------------------------------------------------
(* Provider shapes and inputs *)

LayerPaths ==
    {"Layers.addLayer", "Layers.deleteLayer", "Layers.mergeLayers", "Layers.setOpacity",
     "Layers.getLayerList", "Layers.getLayerCount", "Layers.getCurrentLayer"}

ImagePaths ==
    {"Actions.Image.resize", "Actions.Image.rotate", "Actions.Image.flip",
     "Actions.Image.crop", "Actions.Image.newImage"}

FilterPaths == {"Actions.Filters." \o e : e \in Range(validEffects)}

StatePaths ==
    {"State.getCanvasSize", "State.getImageData", "State.undo", "State.redo", "State.canvas"}

\* a complete, initialized provider
FullApp ==
    {"Layers", "Actions", "Actions.Image", "Actions.Filters", "State", "FileOpen",
     "FileOpen.readImageFile", "FileSave", "FileSave.saveFile"}
    \cup LayerPaths \cup ImagePaths \cup FilterPaths \cup StatePaths

\* a property of app with everything below it
Subtree(p) ==
    CASE p = "Layers" -> {"Layers"} \cup LayerPaths
      [] p = "Actions" -> {"Actions", "Actions.Image", "Actions.Filters"} \cup ImagePaths \cup FilterPaths
      [] p = "Actions.Image" -> {"Actions.Image"} \cup ImagePaths
      [] p = "Actions.Filters" -> {"Actions.Filters"} \cup FilterPaths
      [] p = "State" -> {"State"} \cup StatePaths
      [] p = "FileOpen" -> {"FileOpen", "FileOpen.readImageFile"}
      [] p = "FileSave" -> {"FileSave", "FileSave.saveFile"}
      [] OTHER -> {p}

\* the providers of the model: the complete one, and the complete one
\* lacking one property (lacking Layers, it is not initialized)
ProviderShapes == {FullApp} \cup {FullApp \ Subtree(p) : p \in FullApp}

\* what the provider does when called
Outcomes ==
    [fail : {FALSE}, thrown : {"Error"}, w : {8000}, h : {6000},
     layer : {Undef, Num(30)}, layers : {<<>>, <<"Background", "Layer">>}]
    \cup [fail : {TRUE}, thrown : {"Error", "undefined"}, w : {8000}, h : {6000},
          layer : {Undef}, layers : {<<>>}]

\* command strings given to run on the in-process path; the parameter keys
\* output and result do not occur, and errorCode occurs with a whole number
DispatchCommands ==
    {<<>>, <<" ">>, <<"undo">>, <<"redo">>, <<"get-canvas-size">>, <<"get-image-data">>,
     <<"get-image-info">>, <<"list-effects">>, <<"list-layers">>, <<"merge-layers">>,
     <<"crop">>, <<"flip">>, <<"resize">>, <<"apply-effect">>, <<"new-image">>,
     <<"add-layer">>, <<"unknown-command">>, <<"Resize">>,
     <<"constructor">>, <<"toString">>, <<"valueOf">>, <<"__proto__">>,
     <<"resize", " ", "width", "=", "800", " ", "height", "=", "600">>,
     <<" ", "resize", "\t", "width", "=", "800", " ", " ", "height", "=", "600", " ">>,
     <<"resize", " ", "width", "=", "800">>,
     <<"resize", " ", "width", "=", "0", " ", "height", "=", "600">>,
     <<"rotate", " ", "angle", "=", "90">>,
     <<"flip", " ", "direction", "=", "horizontal">>,
     <<"flip", " ", "direction", "=", "invalid">>,
     <<"crop", " ", "x1", "=", "0", " ", "y1", "=", "0", " ", "x2", "=", "400", " ", "y2", "=", "400">>,
     <<"apply-effect", " ", "blur", " ", "radius", "=", "5">>,
     <<"apply-effect", " ", "name", "=", "blur", " ", "radius", "=", "5">>,
     <<"apply-effect", " ", "name", "=", "nonexistent">>,
     <<"add-layer", " ", "name", "=", "NewLayer">>,
     <<"delete-layer", " ", "id", "=", "2">>,
     <<"set-opacity", " ", "layer", "=", "1", " ", "opacity", "=", "0.5">>,
     <<"set-opacity", " ", "layer", "=", "1", " ", "opacity", "=", "1.5">>,
     <<"save-image", " ", "output", "=", "/path/output.png", " ", "format", "=", "png">>,
     <<"open-image", " ", "file", "=", "/path/image.png">>,
     <<"open-image", " ", "file", "=", "a", "=", "b">>,
     <<"unknown-command", " ", "width", "=", "800">>,
     <<"constructor", " ", "success", "=", "false">>,
     <<"constructor", " ", "errorCode", "=", "5">>,
     <<"undo", " ", "success", "=", "false", " ", "errorCode", "=", "5">>,
     <<"open-image">>, <<"rotate">>, <<"delete-layer">>, <<"set-opacity">>, <<"save-image">>,
     <<"set-opacity", " ", "layer", "=", "1">>,
     <<"set-opacity", " ", "opacity", "=", "0.5">>,
     <<"crop", " ", "x1", "=", "0", " ", "y1", "=", "0", " ", "x2", "=", "400">>,
     <<"save-image", " ", "format", "=", "png">>,
     <<"set-opacity", " ", "layer", "=", "nosuch", " ", "opacity", "=", "1.5">>,
     <<"set-opacity", " ", "layer", "=", "1", " ", "opacity", "=", "-1">>,
     <<"set-opacity", " ", "layer", "=", "1", " ", "opacity", "=", "1">>,
     <<"set-opacity", " ", "layer", "=", "1", " ", "opacity", "=", "0">>,
     <<"set-opacity", " ", "layer", "=", "1", " ", "opacity", "=", "abc">>,
     <<"flip", " ", "direction", "=", "vertical">>,
     <<"flip", " ", "direction", "=", "Horizontal">>,
     <<"flip", " ", "direction", "=", "0">>,
     <<"apply-effect", " ", "sharpen", " ", "amount", "=", "1.5">>,
     <<"apply-effect", " ", "sepia">>,
     <<"set-flags", " ", "on", "=", "true", "\t", " ", "off", "=", "false", " ", "bare", " ",
       "n", "=", "1.50", " ", "s", "=", "abc", " ", "e", "=", " ", "n", "=", "2">>,
     <<"\t", "undo", " ", "now", " ", " ">>,
     <<"new-image", " ", "width", "=", "400">>,
     <<"save-image", " ", "output", "=", "/path/image.png">>}

\* params objects given to run beside the command
DispatchParams ==
    {NoParams,
     ("width" :> Num(8000)) @@ ("height" :> Num(6000)),
     ("direction" :> Str("invalid")),
     ("name" :> Str("nonexistent")),
     ("name" :> Str("blur"))}

---------------------------------------------------------------------------
(* The in-process invocation path: handler.run called directly *)

NoCall == [none |-> TRUE]

InitDispatchVars ==
    /\ lastCall = NoCall
    /\ lastRan = NoCall
    /\ metaRan = NoCall
    /\ parses = <<>>

\* window.ADDRESS_MINIPAINT_HANDLER(commandString, params).  run keeps no
\* state between calls, so a behaviour holds one call, on any provider
Dispatch(commandString, params, o) ==
    LET r == run(app, Cmd(commandString), params, o)
    IN /\ lastCall = NoCall
       /\ metaRan = NoCall
       /\ lastCall' = [cmd |-> commandString, params |-> params, app |-> app, o |-> o]
       /\ lastRan' = r
       /\ UNCHANGED <<app, provLog, metaRan, parses>>
       /\ UNCHANGED busVars

\* main.js finishes initializing the editor: app.Layers is set
AppInitialized ==
    /\ ~Has(app, "Layers")
    /\ app' = app \cup Subtree("Layers")
    /\ UNCHANGED <<provLog, lastCall, lastRan, metaRan, parses>>
    /\ UNCHANGED busVars

\* the params object kept from the call before
NewParams_Kept(previous) == previous

\* line 43, `const params = {}`: the object a call of parseCommand fills is
\* new, whatever the call before (previous) returned
NewParams(previous) == NoParams

MaxParses == 3    \* calls of parseCommand in one behaviour

\* command strings given to parseCommand
ParseCommands ==
    {<<"undo">>,
     <<"resize", " ", "width", "=", "800", " ", "height", "=", "600">>,
     <<"resize", " ", "width", "=", "800">>,
     <<"set-flags", " ", "on", "=", "true", " ", "s", "=", "abc", " ", "e", "=">>,
     <<"apply-effect", " ", "blur", " ", "radius", "=", "5">>,
     <<"open-image", " ", "file", "=", "a", "=", "b">>}

\* handler.parseCommand(commandString), lines 40-57, called on one handler
\* again and again
ParseCall(commandString) ==
    LET parts == SplitWhitespace(commandString)
        previous == IF parses = <<>> THEN NoParams ELSE parses[Len(parses)].out.params
        out == [method |-> Join(parts[1]),
                params |-> ParseTokens(Tail(parts), NewParams(previous))]
    IN /\ Len(parses) < MaxParses
       /\ parses' = Append(parses, [cmd |-> commandString, out |-> out])
       /\ UNCHANGED <<app, provLog, lastCall, lastRan, metaRan>>
       /\ UNCHANGED busVars

---------------------------------------------------------------------------
(* The execute-rexx meta-command (execute-rexx.js).  The RexxJS interpreter *)
(* (window.RexxInterpreter, window.parse) is outside the repository: a     *)
(* script is known by its text, and Programs gives what window.parse makes *)
(* of each text.  In a command string the lexeme "execute-rexx" is the     *)
(* prefix, and "script", "=" and the double quote are lexemes of their own.*)

Say(value) == [type |-> "SAY", value |-> value]
Address(command) == [type |-> "ADDRESS", command |-> command]
Assignment(variable, value) == [type |-> "ASSIGNMENT", variable |-> variable, value |-> value]

Parsed(commands) == [ok |-> TRUE, commands |-> commands]
ParseThrows(message) == [ok |-> FALSE, message |-> message]

\* the scripts of the model and their parse
Programs ==
    ("SAY hi" :> Parsed(<<Say("hi")>>))
    @@ ("x = 1; SAY a; SAY b" :> Parsed(<<Assignment("x", Str("1")), Say("a"), Say("b")>>))
    @@ ("SAY one; SAY" :> Parsed(<<Say("one"), Say("")>>))
    @@ ("ADDRESS MINIPAINT 'undo'" :> Parsed(<<Address(<<"undo">>)>>))
    @@ ("ADDRESS MINIPAINT 'resize width=0 height=600'; SAY after; ADDRESS MINIPAINT 'get-canvas-size'"
          :> Parsed(<<Address(<<"resize", " ", "width", "=", "0", " ", "height", "=", "600">>),
                      Say("after"), Address(<<"get-canvas-size">>)>>))
    @@ ("ADDRESS MINIPAINT 'flip'; ADDRESS MINIPAINT 'bogus'; SAY end"
          :> Parsed(<<Address(<<"flip">>), Address(<<"bogus">>), Say("end")>>))

\* window.parse(script)
Parse(script) ==
    IF script \in DOMAIN Programs THEN Programs[script] ELSE ParseThrows("Unexpected token")

\* the script's run so far: SAY lines, result, returnCode, interpreter
\* variables (NoCall while interpreter.variables is undefined), the commands
\* dispatched and the provider calls made
ScriptState(hasVariables) ==
    [output |-> <<>>, result |-> Str(""), returnCode |-> 0,
     variables |-> IF hasVariables THEN NoParams ELSE NoCall,
     dispatched |-> <<>>, calls |-> <<>>, executed |-> 0, stopped |-> FALSE]

\* response.result || response.output || ''
ResultOrOutput(response) ==
    IF Truthy(response.result) THEN response.result ELSE Str(response.output)

\* lines 47-59: addressHandler.send sets RC and RESULT if the interpreter
\* has variables
SetRcResult(variables, response) ==
    IF variables = NoCall THEN variables
    ELSE Put(Put(variables, "RC", Num(10 * response.errorCode)),
             "RESULT", ResultOrOutput(response))

\* an ADDRESS command whose failure ends the script whatever the options
AddressCommand_AlwaysStops(st, command, r, stopOnError) ==
    LET failed == r.env.errorCode # 0
    IN [st EXCEPT !.dispatched = Append(@, command),
                  !.calls = @ \o r.calls,
                  !.variables = SetRcResult(@, r.env),
                  !.returnCode = IF failed THEN r.env.errorCode ELSE @,
                  !.result = IF failed THEN Str(r.env.output) ELSE ResultOrOutput(r.env),
                  !.stopped = failed]

\* an ADDRESS command whose success sets returnCode to 0
AddressCommand_Reset(st, command, r, stopOnError) ==
    LET failed == r.env.errorCode # 0
    IN [st EXCEPT !.dispatched = Append(@, command),
                  !.calls = @ \o r.calls,
                  !.variables = SetRcResult(@, r.env),
                  !.returnCode = IF failed THEN r.env.errorCode ELSE 0,
                  !.result = IF failed THEN Str(r.env.output) ELSE ResultOrOutput(r.env),
                  !.stopped = failed /\ stopOnError]

\* lines 77-86: an ADDRESS command, given what its dispatch returned
AddressCommand(st, command, r, stopOnError) ==
    LET failed == r.env.errorCode # 0
    IN [st EXCEPT !.dispatched = Append(@, command),
                  !.calls = @ \o r.calls,
                  !.variables = SetRcResult(@, r.env),
                  !.returnCode = IF failed THEN r.env.errorCode ELSE @,
                  !.result = IF failed THEN Str(r.env.output) ELSE ResultOrOutput(r.env),
                  !.stopped = failed /\ stopOnError]

\* one command of the script, a SAY line put before the lines captured
ExecuteCommand_SayFirst(st, c, a, o, stopOnError) ==
    LET n == [st EXCEPT !.executed = @ + 1]
    IN CASE c.type = "SAY" -> [n EXCEPT !.output = <<c.value>> \o @]
         [] c.type = "ADDRESS" ->
                AddressCommand(n, c.command, run(a, Cmd(c.command), NoParams, o), stopOnError)
         [] c.type = "ASSIGNMENT" ->
                [n EXCEPT !.variables =
                    Put(IF @ = NoCall THEN NoParams ELSE @, c.variable, c.value)]

\* lines 74-92: one command of the script
ExecuteCommand(st, c, a, o, stopOnError) ==
    LET n == [st EXCEPT !.executed = @ + 1]
    IN CASE c.type = "SAY" -> [n EXCEPT !.output = Append(@, c.value)]
         [] c.type = "ADDRESS" ->
                AddressCommand(n, c.command, run(a, Cmd(c.command), NoParams, o), stopOnError)
         [] c.type = "ASSIGNMENT" ->
                [n EXCEPT !.variables =
                    Put(IF @ = NoCall THEN NoParams ELSE @, c.variable, c.value)]

\* lines 73-93: the loop over the parsed commands, left by the break
RECURSIVE ExecuteCommands(_, _, _, _, _)
ExecuteCommands(commands, st, a, o, stopOnError) ==
    IF commands = <<>> \/ st.stopped THEN st
    ELSE ExecuteCommands(Tail(commands), ExecuteCommand(st, Head(commands), a, o, stopOnError),
                         a, o, stopOnError)

\* output.trim() of the captured lines, each followed by a newline
RECURSIVE TrimLines(_)
TrimLines(lines) ==
    IF lines # <<>> /\ Head(lines) = "" THEN TrimLines(Tail(lines))
    ELSE IF lines # <<>> /\ lines[Len(lines)] = "" THEN TrimLines(SubSeq(lines, 1, Len(lines) - 1))
    ELSE lines

\* what executeRexxScript resolves with, and the run behind it
ScriptResult(success, output, result, returnCode, st) ==
    [success |-> success, output |-> output, result |-> result, returnCode |-> returnCode,
     st |-> st]

\* executeRexxScript(script, options)
executeRexxScript(a, script, options, o, loaded, hasVariables) ==
    IF ~loaded
    THEN ScriptResult(FALSE, "RexxJS interpreter not loaded", Undef, 1, ScriptState(hasVariables))
    ELSE LET parsed == Parse(script)
         IN IF ~parsed.ok
            THEN ScriptResult(FALSE, "Parse error: " \o parsed.message, Str(""), 2,
                              ScriptState(hasVariables))
            ELSE LET st == ExecuteCommands(parsed.commands, ScriptState(hasVariables), a, o,
                                           Truthy(Get(options, "stopOnError")))
                 IN ScriptResult(st.returnCode = 0, JoinWith(TrimLines(st.output), "\n"),
                                 st.result, st.returnCode, st)

\* the prefix looked for anywhere in the command string
IsMetaCommand_Includes(commandString) ==
    \E i \in 1..Len(commandString) : commandString[i] = "execute-rexx"

\* commandString.startsWith('execute-rexx')
IsMetaCommand(commandString) ==
    commandString # <<>> /\ Head(commandString) = "execute-rexx"

\* the positions where script="<one or more characters>" matches
ScriptMatches(s) ==
    {i \in 1..Len(s) :
        /\ i + 4 <= Len(s)
        /\ s[i] = "script" /\ s[i + 1] = "=" /\ s[i + 2] = "\""
        /\ s[i + 3] # "\""
        /\ \E j \in (i + 4)..Len(s) : s[j] = "\""}

\* match[1] of commandString.match(/script="([^"]+)"/), '' without a match
InlineScript(s) ==
    IF ScriptMatches(s) = {} THEN ""
    ELSE LET i == CHOOSE k \in ScriptMatches(s) : \A m \in ScriptMatches(s) : k <= m
             j == CHOOSE k \in (i + 4)..Len(s) :
                     s[k] = "\"" /\ \A m \in (i + 4)..(k - 1) : s[m] # "\""
         IN Join(SubSeq(s, i + 3, j - 1))

\* commandString.includes('script=')
IncludesScriptEquals(s) ==
    \E i \in 1..(Len(s) - 1) : s[i] = "script" /\ s[i + 1] = "="

\* lines 135-141: the script payload
ScriptContent(commandString, params) ==
    IF Truthy(Get(params, "script")) THEN ToStr(Get(params, "script"))
    ELSE IF IncludesScriptEquals(commandString) THEN InlineScript(commandString)
    ELSE ""

\* what one call of the wrapped handler did: the envelope, whether it was
\* taken as the meta-command, the script run (NoCall if none) and the
\* provider calls
MetaRan(env, meta, script, pcalls) ==
    [env |-> env, meta |-> meta, script |-> script, calls |-> pcalls]

\* window.ADDRESS_MINIPAINT_HANDLER as setupRexxScriptExecution installs it
wrappedHandler(a, commandString, params, o, loaded, hasVariables) ==
    IF IsMetaCommand(commandString)
    THEN LET scriptContent == ScriptContent(commandString, params)
         IN IF scriptContent = ""
            THEN MetaRan(Env(FALSE, 200, "script parameter required for execute-rexx", Undef),
                         TRUE, NoCall, <<>>)
            ELSE LET result == executeRexxScript(a, scriptContent, params, o, loaded,
                                                 hasVariables)
                 IN MetaRan(Env(result.success, result.returnCode, result.output,
                                result.result),
                            TRUE, result, result.st.calls)
    ELSE LET r == run(a, Cmd(commandString), params, o)
         IN MetaRan(r.env, FALSE, NoCall, r.calls)

\* command strings and params given to the wrapped handler
MetaCommands ==
    {<<"execute-rexx">>,
     <<"execute-rexx", " ", "script", "=", "\"", "SAY", " ", "hi", "\"">>,
     <<"execute-rexx", " ", "script", "=", "\"", "\"">>,
     <<"execute-rexx", " ", "script", "=", "\"", "SAY", " ", "(", "\"">>,
     <<"execute-rexx", "-all", " ", "script", "=", "SAY">>,
     <<" ", "execute-rexx", " ", "script", "=", "\"", "SAY", " ", "hi", "\"">>,
     <<"undo">>,
     <<"resize", " ", "width", "=", "800", " ", "height", "=", "600">>}

MetaParams ==
    {NoParams, ("script" :> Str(""))} \cup {("script" :> Str(p)) : p \in DOMAIN Programs}
    \cup {("script" :> Str(p)) @@ ("stopOnError" :> Bool(TRUE)) : p \in DOMAIN Programs}

\* what the provider does during a script: its callables return, or throw
\* an Error
MetaOutcomes ==
    {o \in Outcomes : o.thrown = "Error" /\ o.layer = Undef /\ o.layers = <<>>}

\* no call has been made on the in-process path yet
Idle == lastCall = NoCall /\ metaRan = NoCall

\* a caller calls the wrapped handler; like run it keeps no state between
\* calls, so a behaviour holds one call
MetaCommand(commandString, params, o, loaded, hasVariables) ==
    /\ lastCall = NoCall
    /\ metaRan = NoCall
    /\ metaRan' = [cmd |-> commandString, params |-> params, app |-> app, o |-> o,
                   loaded |-> loaded, hasVariables |-> hasVariables,
                   ran |-> wrappedHandler(app, commandString, params, o, loaded, hasVariables)]
    /\ UNCHANGED <<app, provLog, lastCall, lastRan, parses>>
    /\ UNCHANGED busVars

---------------------------------------------------------------------------
(* The RPC control bus *)

MaxSends == 2     \* sendRPC calls in one behaviour

timeout == 30000

NoMsg == [none |-> TRUE]

EmptyMap == [i \in {} |-> NoMsg]

Remove(map, id) == [i \in (DOMAIN map) \ {id} |-> map[i]]

\* the postMessage payload of sendRPC
Request(id, method, params) ==
    [type |-> "rpc-request", id |-> id, method |-> method, params |-> params]

\* the origins of the director's window and of another window
DirectorOrigin == "https://director.example"
OtherOrigin == "https://other.example"

\* a message event on the worker's window: data is whether event.data is
\* truthy, type, id, method and params are its members, source and origin
\* are event.source and event.origin
MessageEvent(data, source, origin) ==
    [data |-> TRUE, type |-> data.type, id |-> data.id, method |-> data.method,
     params |-> data.params, source |-> source, origin |-> origin]

\* a message on the director's window: event.data (type, id, success,
\* result, error), event.source, and for a worker's reply the request it
\* answers and what the provider did during its dispatch
Message(type, id, success, result, error, source, of, o) ==
    [data |-> TRUE, type |-> type, id |-> id, success |-> success, result |-> result,
     error |-> error, source |-> source, of |-> of, o |-> o]

\* states of the promise sendRPC returns
Pending == [state |-> "pending", cause |-> "", msg |-> NoMsg, value |-> Undef, error |-> ""]

Resolved(m) ==
    [state |-> "resolved", cause |-> "response", msg |-> m, value |-> m.result, error |-> ""]

\* reject(new Error(error || 'Unknown error'))
RejectedByResponse(m) ==
    [state |-> "rejected", cause |-> "response", msg |-> m, value |-> Undef,
     error |-> IF Truthy(m.error) THEN ToStr(m.error) ELSE "Unknown error"]

TimeoutMessage(id, method) ==
    "RPC request " \o ToString(id) \o " (" \o CmdText(method) \o ") timed out after "
        \o ToString(timeout) \o "ms"

RejectedByTimeout(id, method) ==
    [state |-> "rejected", cause |-> "timeout", msg |-> NoMsg, value |-> Undef,
     error |-> TimeoutMessage(id, method)]

\* a call of the promise's resolve or reject: only the first one settles it
Settle(p, outcome) == IF p.state = "pending" THEN outcome ELSE p

\* v is a JavaScript primitive, not an object with members
IsPrimitive(v) == "t" \in DOMAIN v

\* lines 189-203: what the ADDRESS handler returns once sendRPC has settled
AddressReturn(p) ==
    IF p.state = "resolved"
    THEN IF p.value = Undef
         THEN Env(FALSE, 99,
                  "RPC Error: Cannot read properties of undefined (reading 'success')", Undef)
         ELSE IF IsPrimitive(p.value)
         THEN Env(Undef, 0, "", Str(""))
         ELSE Env(p.value.success, p.value.errorCode, p.value.output,
                  IF Truthy(p.value.result) THEN p.value.result ELSE Str(""))
    ELSE Env(FALSE, 99, "RPC Error: " \o p.error, Undef)

\* lines 168-186: the method and params the ADDRESS handler sends
AddressParsed(commandString, params) ==
    IF " " \in Range(commandString)
    THEN LET parts == SplitWhitespace(commandString)
         IN [method |-> Cmd(parts[1]), params |-> ParseTokens(Tail(parts), NoParams)]
    ELSE [method |-> Cmd(commandString), params |-> params]

\* the id taken from the size of the pending table
NextId_FromTableSize == Cardinality(DOMAIN pendingRequests) + 1

\* const id = ++this.requestId
NextId == requestId + 1

\* sendRPC(method, params); `call` records who called
sendRPC(method, params, call) ==
    LET id == NextId
    IN /\ requestId' = id
       /\ timers' = timers \cup {id}
       /\ pendingRequests' = (id :> [id |-> id, method |-> method]) @@ pendingRequests
       /\ promise' = (id :> Pending) @@ promise
       /\ settles' = (id :> 0) @@ settles
       /\ calls' = (id :> call) @@ calls
       /\ sendLog' = Append(sendLog, id)
       /\ reqQueue' = Append(reqQueue,
                              MessageEvent(Request(id, method, params), "director", DirectorOrigin))

\* a caller of the bridge calls sendRPC, as the convenience methods do
SendDirect(method, params) ==
    /\ requestId < MaxSends
    /\ sendRPC(Cmd(method), params,
               [kind |-> "sendRPC", command |-> method, method |-> Cmd(method), params |-> params])
    /\ UNCHANGED <<app, provLog, running, inbox, addrResult, otherInbox, foreign, uncaught>>
    /\ UNCHANGED <<dispatchVars, second>>

\* a script runs ADDRESS MINIPAINT commandString through createAddressHandler()
AddressSend(commandString) ==
    LET parsed == AddressParsed(commandString, NoParams)
    IN /\ requestId < MaxSends
       /\ sendRPC(parsed.method, parsed.params,
                  [kind |-> "address", command |-> commandString,
                   method |-> parsed.method, params |-> parsed.params])
       /\ UNCHANGED <<app, provLog, running, inbox, addrResult, otherInbox, foreign, uncaught>>
       /\ UNCHANGED <<dispatchVars, second>>

\* event.data.type !== type alone: reading the type of a missing data throws
NotOfType_TypeOnly(m, type) ==
    IF m.data THEN [threw |-> FALSE, value |-> m.type # type]
    ELSE [threw |-> TRUE, value |-> TRUE]

\* lines 38 and 107, !event.data || event.data.type !== type: the first
\* operand keeps the second from reading the type of a missing data
NotOfType(m, type) == [threw |-> FALSE, value |-> ~m.data \/ m.type # type]

\* the exceptions escaping a listener that tests message m for type
Escaping(m, type) == IF NotOfType(m, type).threw THEN 1 ELSE 0

\* line 38 negated: event.data && event.data.type === 'rpc-request'
IsRpcRequest(m) == ~NotOfType(m, "rpc-request").value

\* the worker's listener, up to the await of executeCommand: the dispatch
\* runs (with its provider calls) when the message is delivered
WorkerOnMessage(o) ==
    /\ reqQueue # <<>>
    /\ LET m == Head(reqQueue)
           r == run(app, m.method, m.params, o)
       IN /\ reqQueue' = Tail(reqQueue)
          /\ IF IsRpcRequest(m)
             THEN /\ running' = running \cup {[id |-> m.id, env |-> r.env, of |-> m, o |-> o]}
                  /\ provLog' = provLog \o r.calls
             ELSE UNCHANGED <<running, provLog>>
          /\ uncaught' = uncaught + Escaping(m, "rpc-request")
    /\ UNCHANGED <<app, requestId, pendingRequests, timers, promise, settles, calls,
                   sendLog, inbox, addrResult, otherInbox, foreign>>
    /\ UNCHANGED <<dispatchVars, second>>

\* lines 49-54: the dispatch has completed and the worker posts its response
WorkerResponse(r) ==
    Message("rpc-response", r.id, r.env.success, r.env, Undef, "worker", r.of, r.o)

\* the reply posted to the embedding window whoever asked
ReplyWindow_Parent(r) == "director"

\* event.source of the request
ReplyWindow(r) == r.of.source

\* the origin of a window
OriginOf(window) == IF window = "director" THEN DirectorOrigin ELSE OtherOrigin

\* window.postMessage(message, targetOrigin): the message is delivered when
\* the window's origin is the target origin
PostMessage(window, message, targetOrigin) ==
    IF OriginOf(window) # targetOrigin THEN UNCHANGED <<inbox, otherInbox>>
    ELSE IF window = "director"
         THEN inbox' = Append(inbox, message) /\ UNCHANGED otherInbox
    ELSE otherInbox' = Append(otherInbox, message) /\ UNCHANGED inbox

WorkerRespond(r) ==
    /\ r \in running
    /\ running' = running \ {r}
    /\ PostMessage(ReplyWindow(r), WorkerResponse(r), r.of.origin)
    /\ UNCHANGED <<app, provLog, requestId, pendingRequests, timers, promise, settles,
                   calls, sendLog, reqQueue, addrResult, foreign, uncaught>>
    /\ UNCHANGED <<dispatchVars, second>>

\* what other windows post to the worker's window: an rpc-request bearing
\* an id the director uses too, an rpc-response, unrelated traffic with
\* and without data
WorkerTraffic ==
    {MessageEvent(Request(1, Cmd(<<"redo">>), NoParams), "other", OtherOrigin),
     MessageEvent([type |-> "rpc-response", id |-> 1, method |-> Undef, params |-> NoParams],
                  "other", OtherOrigin),
     MessageEvent([type |-> "resize", id |-> 2, method |-> Cmd(<<"undo">>), params |-> NoParams],
                  "other", OtherOrigin),
     [MessageEvent(Request(2, Cmd(<<"undo">>), NoParams), "other", OtherOrigin)
        EXCEPT !.data = FALSE]}

\* the messages among them that are no rpc-request
WorkerNoise == {m \in WorkerTraffic : ~(m.data /\ m.type = "rpc-request")}

\* another window posts a message to the worker's window
PostToWorker(m) ==
    /\ m \notin foreign
    /\ foreign' = foreign \cup {m}
    /\ reqQueue' = Append(reqQueue, m)
    /\ UNCHANGED <<app, provLog, requestId, pendingRequests, timers, promise, settles,
                   calls, sendLog, running, inbox, addrResult, otherInbox, uncaught>>
    /\ UNCHANGED <<dispatchVars, second>>

\* the oldest pending entry, whatever the id of the message
PendingFor_ArrivalOrder(m) ==
    IF DOMAIN pendingRequests = {} THEN {}
    ELSE {CHOOSE i \in DOMAIN pendingRequests : \A j \in DOMAIN pendingRequests : i <= j}

\* the entry of the message's id, or else the oldest pending entry
PendingFor_Fallback(m) ==
    IF m.id \in DOMAIN pendingRequests THEN {m.id} ELSE PendingFor_ArrivalOrder(m)

\* the pending entry the director's listener settles for message m
PendingFor(m) == IF m.id \in DOMAIN pendingRequests THEN {m.id} ELSE {}

\* pending.resolve(result) or pending.reject(new Error(...))
SettledBy(m) == IF m.success THEN Resolved(m) ELSE RejectedByResponse(m)

\* the timer left armed
ClearTimeout_Forgotten(id) == timers

\* clearTimeout(timeoutId) in the entry's resolve and reject
ClearTimeout(id) == timers \ {id}

\* this.pendingRequests.delete(id) after a response settled the entry
DeleteSettled(id) == Remove(pendingRequests, id)

\* the ADDRESS handler's await returns when the promise of its call settles
AddressResumed(id, p) ==
    IF calls[id].kind = "address" /\ id \notin DOMAIN addrResult
    THEN (id :> AddressReturn(p)) @@ addrResult
    ELSE addrResult

\* the director's listener (lines 106-122)
DirectorListener ==
    /\ inbox # <<>>
    /\ LET m == Head(inbox)
       IN /\ inbox' = Tail(inbox)
          /\ uncaught' = uncaught + Escaping(m, "rpc-response")
          /\ IF ~NotOfType(m, "rpc-response").value /\ PendingFor(m) # {}
             THEN LET id == CHOOSE i \in PendingFor(m) : TRUE
                      p == Settle(promise[id], SettledBy(m))
                  IN /\ timers' = ClearTimeout(id)
                     /\ promise' = [promise EXCEPT ![id] = p]
                     /\ settles' = [settles EXCEPT ![id] = @ + 1]
                     /\ pendingRequests' = DeleteSettled(id)
                     /\ addrResult' = AddressResumed(id, p)
             ELSE UNCHANGED <<timers, promise, settles, pendingRequests, addrResult>>
    /\ UNCHANGED <<app, provLog, requestId, calls, sendLog, reqQueue, running,
                   otherInbox, foreign>>
    /\ UNCHANGED dispatchVars

\* a message event on the director's window, where one bridge listens
DirectorOnMessage == DirectorListener /\ UNCHANGED second

\* the entry left in the table
DeleteTimedOut_Kept(id) == pendingRequests

\* this.pendingRequests.delete(id) in the timer callback
DeleteTimedOut(id) == Remove(pendingRequests, id)

\* the timer callback telling the worker to cancel the request
DirectorTimeout_Cancels(id) ==
    /\ id \in timers
    /\ LET p == Settle(promise[id], RejectedByTimeout(id, calls[id].method))
       IN /\ timers' = timers \ {id}
          /\ pendingRequests' = DeleteTimedOut(id)
          /\ promise' = [promise EXCEPT ![id] = p]
          /\ settles' = [settles EXCEPT ![id] = @ + 1]
          /\ addrResult' = AddressResumed(id, p)
          /\ reqQueue' = Append(reqQueue,
                MessageEvent([type |-> "rpc-cancel", id |-> id, method |-> calls[id].method,
                              params |-> NoParams], "director", DirectorOrigin))
    /\ UNCHANGED <<app, provLog, requestId, calls, sendLog, running, inbox,
                   otherInbox, foreign, uncaught>>
    /\ UNCHANGED <<dispatchVars, second>>

\* the setTimeout callback of request id (lines 133-136)
DirectorTimeout(id) ==
    /\ id \in timers
    /\ LET p == Settle(promise[id], RejectedByTimeout(id, calls[id].method))
       IN /\ timers' = timers \ {id}
          /\ pendingRequests' = DeleteTimedOut(id)
          /\ promise' = [promise EXCEPT ![id] = p]
          /\ settles' = [settles EXCEPT ![id] = @ + 1]
          /\ addrResult' = AddressResumed(id, p)
    /\ UNCHANGED <<app, provLog, requestId, calls, sendLog, reqQueue, running, inbox,
                   otherInbox, foreign, uncaught>>
    /\ UNCHANGED <<dispatchVars, second>>

\* a bridge as its constructor leaves it (lines 91-94)
NewBridge == [requestId |-> 0, pendingRequests |-> EmptyMap, promise |-> EmptyMap]

\* what the callers of the second bridge send
SecondCalls == {[method |-> <<"redo">>, params |-> NoParams]}

\* sendRPC(method, params) on the second bridge: its own counter, its own
\* table, the same worker frame
SecondSend(method, params) ==
    LET id == second.requestId + 1
    IN /\ second.requestId < MaxSends
       /\ second' = [requestId |-> id,
                     pendingRequests |-> (id :> [id |-> id, method |-> Cmd(method)])
                                            @@ second.pendingRequests,
                     promise |-> (id :> Pending) @@ second.promise]
       /\ reqQueue' = Append(reqQueue,
                              MessageEvent(Request(id, Cmd(method), params), "director",
                                           DirectorOrigin))
       /\ UNCHANGED <<app, provLog, requestId, pendingRequests, timers, promise, settles,
                      calls, sendLog, running, inbox, addrResult, otherInbox, foreign,
                      uncaught>>
       /\ UNCHANGED dispatchVars

\* the second bridge's listener (lines 106-122) on message m
SecondListener(m) ==
    IF ~NotOfType(m, "rpc-response").value /\ m.id \in DOMAIN second.pendingRequests
    THEN [second EXCEPT !.promise[m.id] = Settle(@, SettledBy(m)),
                        !.pendingRequests = Remove(@, m.id)]
    ELSE second

\* a message event on the director's window, where both bridges listen:
\* window.addEventListener gives the event to every listener
BothOnMessage == DirectorListener /\ second' = SecondListener(Head(inbox))

\* messages other windows post to the director's window: rpc-response
\* shaped ones (for any id) and unrelated traffic; the queue holds at most
\* one of them at a time
ForeignMessages ==
    {Message("rpc-response", id, TRUE, Env(TRUE, 0, "forged", Str("")), Undef, "other", NoMsg, NoMsg)
        : id \in 1..MaxSends}
    \cup {Message("rpc-response", id, FALSE, Undef, Str("forged"), "other", NoMsg, NoMsg)
        : id \in 1..MaxSends}
    \cup {Message("other", 0, FALSE, Undef, Undef, "other", NoMsg, NoMsg)}

ForeignPost(m) ==
    /\ \A i \in DOMAIN inbox : inbox[i].source # "other"
    /\ inbox' = Append(inbox, m)
    /\ UNCHANGED <<app, provLog, requestId, pendingRequests, timers, promise, settles,
                   calls, sendLog, reqQueue, running, addrResult, otherInbox, foreign, uncaught>>
    /\ UNCHANGED <<dispatchVars, second>>

\* rpc-response messages whose result is no envelope: a string, nothing
MalformedResponses ==
    {Message("rpc-response", 1, TRUE, Str("ok"), Undef, "other", NoMsg, NoMsg),
     Message("rpc-response", 1, TRUE, Undef, Undef, "other", NoMsg, NoMsg)}

\* messages other windows post to the director's window that are no
\* rpc-response: unrelated traffic, an rpc-request, a message without data
DirectorNoise ==
    {Message("other", 0, FALSE, Undef, Undef, "other", NoMsg, NoMsg),
     Message("rpc-request", 1, TRUE, Undef, Undef, "other", NoMsg, NoMsg),
     [Message("rpc-response", 1, TRUE, Env(TRUE, 0, "forged", Str("")), Undef, "other",
              NoMsg, NoMsg) EXCEPT !.data = FALSE]}

\* what callers send over the bus
BusDirectCalls ==
    {[method |-> <<"undo">>, params |-> NoParams],
     [method |-> <<"get-canvas-size">>, params |-> NoParams]}

BusCommands ==
    {<<"resize", " ", "width", "=", "800", " ", "height", "=", "600">>}

\* the commands scripts send through the ADDRESS handler
AddressCommands == BusCommands \cup {<<"undo">>}

\* the worker's provider on the bus: the complete one
BusShapes == {FullApp}

\* on the bus the provider's callables return (a command fails for a
\* missing parameter or a missing capability)
BusOutcomes ==
    [fail : {FALSE}, thrown : {"Error"}, w : {8000}, h : {6000}, layer : {Undef},
     layers : {<<>>}]

InitBusVars ==
    /\ requestId = 0
    /\ pendingRequests = EmptyMap
    /\ timers = {}
    /\ promise = EmptyMap
    /\ settles = EmptyMap
    /\ calls = EmptyMap
    /\ sendLog = <<>>
    /\ reqQueue = <<>>
    /\ running = {}
    /\ inbox = <<>>
    /\ addrResult = EmptyMap
    /\ otherInbox = <<>>
    /\ foreign = {}
    /\ uncaught = 0
    /\ second = NewBridge

---------------------------------------------------------------------------
(* Specifications *)

\* the control bus: a director bridge, a worker bridge and the provider
Init ==
    /\ app \in BusShapes
    /\ provLog = <<>>
    /\ InitDispatchVars
    /\ InitBusVars

Next ==
    \/ \E c \in BusDirectCalls : SendDirect(c.method, c.params)
    \/ \E cs \in BusCommands : AddressSend(cs)
    \/ \E o \in BusOutcomes : WorkerOnMessage(o)
    \/ \E r \in running : WorkerRespond(r)
    \/ DirectorOnMessage
    \/ \E id \in timers : DirectorTimeout(id)
    \/ \E m \in ForeignMessages : ForeignPost(m)

Spec == Init /\ [][Next]_vars

\* the in-process path: run called directly on a provider
InitDispatch ==
    /\ app \in ProviderShapes
    /\ provLog = <<>>
    /\ InitDispatchVars
    /\ InitBusVars

NextDispatch ==
    \/ /\ Idle
       /\ \E cs \in DispatchCommands, ps \in DispatchParams, o \in Outcomes : Dispatch(cs, ps, o)
    \/ /\ Idle
       /\ \E cs \in MetaCommands, ps \in MetaParams, o \in MetaOutcomes,
             loaded, hasVariables \in BOOLEAN :
                MetaCommand(cs, ps, o, loaded, hasVariables)
    \/ AppInitialized

\* the control bus with its scheduling: an armed setTimeout timer fires
\* unless it is cleared, and a message posted to the director's window is
\* delivered to its listener; nothing makes the worker answer
SpecLive ==
    /\ Init
    /\ [][Next]_vars
    /\ \A id \in 1..MaxSends : WF_vars(DirectorTimeout(id))
    /\ WF_vars(DirectorOnMessage)

\* two director bridges in one window, created by two calls of
\* setupDirectorBridge for the same worker frame; no timer fires
NextTwoBridges ==
    \/ \E c \in BusDirectCalls : SendDirect(c.method, c.params)
    \/ \E c \in SecondCalls : SecondSend(c.method, c.params)
    \/ \E o \in BusOutcomes : WorkerOnMessage(o)
    \/ \E r \in running : WorkerRespond(r)
    \/ BothOnMessage

SpecTwoBridges == Init /\ [][NextTwoBridges]_vars

\* the ADDRESS handler of createAddressHandler: scripts send commands
\* through it, the worker answers or the timer fires, and responses whose
\* result is no envelope arrive
NextAddress ==
    \/ \E cs \in AddressCommands : AddressSend(cs)
    \/ \E o \in BusOutcomes : WorkerOnMessage(o)
    \/ \E r \in running : WorkerRespond(r)
    \/ DirectorOnMessage
    \/ \E id \in timers : DirectorTimeout(id)
    \/ \E m \in MalformedResponses : ForeignPost(m)

SpecAddress == Init /\ [][NextAddress]_vars

SpecDispatch == InitDispatch /\ [][NextDispatch]_vars

\* parseCommand alone: any code that holds the handler parses command
\* strings, on any provider
NextParse ==
    \/ \E cs \in ParseCommands : ParseCall(cs)
    \/ AppInitialized

SpecParse == InitDispatch /\ [][NextParse]_vars

\* the worker bridge: its window receives the director's requests and the
\* messages of other windows; the director's listener is left out, so
\* inbox holds every message the worker posted to the director
NextWorker ==
    \/ \E c \in BusDirectCalls : SendDirect(c.method, c.params)
    \/ \E cs \in BusCommands : AddressSend(cs)
    \/ \E m \in WorkerTraffic : PostToWorker(m)
    \/ \E o \in BusOutcomes : WorkerOnMessage(o)
    \/ \E r \in running : WorkerRespond(r)

SpecWorker == Init /\ [][NextWorker]_vars

\* the two listeners under traffic that is not theirs: callers send
\* requests, other windows post to both windows, no timer fires
NextListeners ==
    \/ \E c \in BusDirectCalls : SendDirect(c.method, c.params)
    \/ \E m \in WorkerNoise : PostToWorker(m)
    \/ \E o \in BusOutcomes : WorkerOnMessage(o)
    \/ \E r \in running : WorkerRespond(r)
    \/ \E m \in DirectorNoise : ForeignPost(m)
    \/ DirectorOnMessage

SpecListeners == Init /\ [][NextListeners]_vars

---------------------------------------------------------------------------
(* Claims about the dispatch table, checked under SpecDispatch *)

Called == lastCall # NoCall

\* C8: dispatch("resize", {width:800,height:600}), a registered method name
\* with a params mapping, on an initialized provider supporting resize gives
\* the handler exactly that mapping, calls the provider's resize with 800
\* and 600 and returns success=true, errorCode=0, output "Resized to 800x600"
C8_DispatchWithParams ==
    (/\ Called
     /\ lastCall.cmd = <<"resize">>
     /\ lastCall.params = ("width" :> Num(8000)) @@ ("height" :> Num(6000))
     /\ Has(lastCall.app, "Layers")
     /\ HasImageAction(lastCall.app, "resize")
     /\ ~lastCall.o.fail)
    => /\ lastRan.handler = "resize"
       /\ lastRan.args = lastCall.params
       /\ lastRan.env.success = TRUE
       /\ lastRan.env.errorCode = 0
       /\ lastRan.env.output = "Resized to 800x600"
       /\ lastRan.calls = <<Call("Actions.Image.resize", <<Num(8000), Num(6000)>>)>>

\* C9: for every method name that is not a registered command, dispatch on
\* an initialized provider returns success=false, errorCode=2, output
\* "Unknown command: <method>", invokes no handler and calls nothing on the
\* provider
C9_UnknownCommand ==
    (/\ Called
     /\ Has(lastCall.app, "Layers")
     /\ parseCommand(lastCall.cmd).method \notin RegisteredMethods)
    => /\ lastRan.env.success = FALSE
       /\ lastRan.env.errorCode = 2
       /\ lastRan.env.output = "Unknown command: " \o parseCommand(lastCall.cmd).method
       /\ lastRan.handler = ""
       /\ lastRan.calls = <<>>

\* C10: on a provider that is not initialized, dispatch of any method with
\* any params returns success=false, errorCode=1, output "miniPaint not
\* initialized", invokes no handler and calls nothing on the provider
C10_NotInitialized ==
    (Called /\ ~Has(lastCall.app, "Layers"))
    => /\ lastRan.env.success = FALSE
       /\ lastRan.env.errorCode = 1
       /\ lastRan.env.output = "miniPaint not initialized"
       /\ lastRan.handler = ""
       /\ lastRan.calls = <<>>

\* an unregistered method with a parameter has been dispatched on a
\* provider that is not initialized
C10_Witness ==
    /\ Called
    /\ ~Has(lastCall.app, "Layers")
    /\ lastCall.cmd = <<"unknown-command", " ", "width", "=", "800">>
    /\ lastRan.env.errorCode = 1

---------------------------------------------------------------------------
(* Claims about the control bus, checked under Spec *)

Settled(p) == p.state # "pending"

\* the worker's reply to request id is neither awaited nor under way
Answered(id) ==
    /\ \A i \in DOMAIN reqQueue : reqQueue[i].id # id
    /\ \A r \in running : r.id # id
    /\ \A i \in DOMAIN inbox : ~(inbox[i].source = "worker" /\ inbox[i].id = id)

\* the director's listener takes a message off its queue
Delivery == inbox # <<>> /\ inbox' = Tail(inbox)

\* C1: the promise of every sendRPC call is settled exactly once: its
\* pending entry exists from the send until the first matching response or
\* the timeout, whichever comes first; resolve/reject is called once, and a
\* settled promise never changes again
C1_SettledOnce ==
    [][\A id \in DOMAIN promise' :
          /\ settles'[id] <= 1
          /\ Settled(promise'[id]) <=> settles'[id] = 1
          /\ id \in DOMAIN pendingRequests' <=> ~Settled(promise'[id])
          /\ id \notin DOMAIN promise => id \in DOMAIN pendingRequests'
          /\ (id \in DOMAIN promise /\ Settled(promise[id]))
                => promise'[id] = promise[id] /\ settles'[id] = settles[id]]_vars

\* a request was resolved by its response and another rejected by its
\* timeout, and the worker's reply to the timed-out one was delivered too
C1_Witness ==
    \E i, j \in DOMAIN promise :
        /\ promise[i].state = "resolved" /\ promise[i].msg.source = "worker"
        /\ promise[j].cause = "timeout" /\ Answered(j)
        /\ settles[i] = 1 /\ settles[j] = 1

\* C2: delivery of an rpc-response whose id has no entry in the pending
\* table changes nothing but the queue it is taken from
C2_UnmatchedResponseIgnored ==
    [][(/\ Delivery
        /\ Head(inbox).type = "rpc-response"
        /\ Head(inbox).id \notin DOMAIN pendingRequests)
       => UNCHANGED <<pendingRequests, requestId, promise, settles, timers, addrResult,
                      calls, sendLog, reqQueue, running, app, provLog>>]_vars

\* the only request sent timed out, and the worker's reply to it was
\* delivered afterwards and dropped
C2_Witness ==
    /\ requestId = 1
    /\ promise[1].cause = "timeout"
    /\ Answered(1)
    /\ inbox = <<>>

\* C3: a promise settled by a response is settled by a response bearing its
\* own id; the worker's response to a call carries the envelope of the
\* dispatch of that call's method and params, whatever the order of completion
C3_CorrelatedById ==
    \A id \in DOMAIN promise :
        promise[id].cause = "response" =>
            LET m == promise[id].msg
            IN /\ m.id = id
               /\ m.source = "worker" =>
                    /\ m.of.id = id
                    /\ m.of.method = calls[id].method
                    /\ m.of.params = calls[id].params
                    /\ m.result = run(app, calls[id].method, calls[id].params, m.o).env

\* get-canvas-size was sent before undo, undo is resolved with its own
\* result while get-canvas-size is answered later, with its own result
C3_Witness ==
    /\ requestId = 2
    /\ calls[1].method = Cmd(<<"get-canvas-size">>)
    /\ calls[2].method = Cmd(<<"undo">>)
    /\ promise[2].state = "resolved"
    /\ promise[2].value.output = "Undo performed"
    /\ promise[1].state = "pending"
    /\ \E i \in DOMAIN inbox : inbox[i].source = "worker" /\ inbox[i].id = 1

\* C4: the k-th sendRPC call uses id k, and the id it allocates is not in
\* the pending table
C4_IdsMonotonic ==
    [][sendLog' # sendLog =>
          /\ requestId' = requestId + 1
          /\ sendLog' = Append(sendLog, requestId')
          /\ \A k \in DOMAIN sendLog' : sendLog'[k] = k
          /\ requestId' \notin DOMAIN pendingRequests
          /\ requestId' \in DOMAIN pendingRequests']_vars

\* a second request was sent after the first one was settled
C4_Witness ==
    /\ sendLog = <<1, 2>>
    /\ Settled(promise[1])
    /\ DOMAIN pendingRequests = {2}

\* C5: a request stays in the pending table as long as its timer is armed;
\* the step in which the timer fires rejects the promise with the timeout
\* error naming the id and the method, and removes the entry in that step
C5_TimeoutRejects ==
    [][\A id \in DOMAIN promise' :
          /\ id \in timers' <=> id \in DOMAIN pendingRequests'
          /\ (id \in DOMAIN promise /\ ~Settled(promise[id]) /\ promise'[id].cause = "timeout")
                => /\ id \in timers /\ id \notin timers'
                   /\ id \in DOMAIN pendingRequests
                   /\ id \notin DOMAIN pendingRequests'
                   /\ promise'[id].state = "rejected"
                   /\ promise'[id].error =
                        "RPC request " \o ToString(id) \o " (" \o Join(calls[id].method.lex)
                            \o ") timed out after 30000ms"
          /\ (id \in DOMAIN pendingRequests /\ id \notin DOMAIN pendingRequests')
                => Settled(promise'[id])]_vars

\* undo, sent first, timed out before any response was delivered
C5_Witness ==
    /\ requestId >= 1
    /\ calls[1].method = Cmd(<<"undo">>)
    /\ promise[1].state = "rejected"
    /\ promise[1].error = "RPC request 1 (undo) timed out after 30000ms"
    /\ 1 \notin DOMAIN pendingRequests
    /\ ~Answered(1)

\* C6: a command the worker ran and that failed (success=false, nonzero
\* errorCode) reaches the sendRPC caller as that envelope: the promise is
\* resolved with it and not rejected
C6_FailedCommandDelivered ==
    \A id \in DOMAIN promise :
        LET p == promise[id]
        IN (/\ p.cause = "response"
            /\ p.msg.source = "worker"
            /\ ~p.msg.result.success
            /\ p.msg.result.errorCode # 0)
           => p.state = "resolved" /\ p.value = p.msg.result

\* success, errorCode, output and result (a missing result reads as "")
SameEnvelope(e, f) ==
    /\ e.success = f.success
    /\ e.errorCode = f.errorCode
    /\ e.output = f.output
    /\ (IF Truthy(e.result) THEN e.result ELSE Str(""))
         = (IF Truthy(f.result) THEN f.result ELSE Str(""))

\* C7: the envelope the ADDRESS handler returns for a command string over
\* the bus equals the envelope of in-process dispatch of that string on the
\* same provider, and the worker's handler gets the params the director parsed
C7_RpcEqualsInProcess ==
    \A id \in DOMAIN addrResult :
        (promise[id].cause = "response" /\ promise[id].msg.source = "worker")
        => LET m == promise[id].msg
               inProcess == run(app, Cmd(calls[id].command), NoParams, m.o)
               overBus == run(app, m.of.method, m.of.params, m.o)
           IN /\ SameEnvelope(addrResult[id], inProcess.env)
              /\ overBus.args = calls[id].params

---------------------------------------------------------------------------
(* Claims about the handlers and the envelope, checked under SpecDispatch *)

\* run returned to its caller (it did not throw or reject)
Returned == {"success", "errorCode", "output", "result"} \subseteq DOMAIN lastRan.env

\* the provider was called and rejected with undefined, so the catch block
\* of the handler failed reading error.message
HandlerFailed ==
    /\ lastRan.calls # <<>>
    /\ lastCall.o.fail
    /\ lastCall.o.thrown = "undefined"

C12_SuccessIffZero ==
    /\ Called => (lastRan.env.success <=> lastRan.env.errorCode = 0)
    /\ metaRan # NoCall => (metaRan.ran.env.success <=> metaRan.ran.env.errorCode = 0)
    /\ \A id \in DOMAIN addrResult :
          addrResult[id].success <=> addrResult[id].errorCode = 0

\* the envelope has its four fields, output a string (as every output of
\* the model is) and result not missing
FullShape(e) ==
    /\ DOMAIN e = {"success", "errorCode", "output", "result"}
    /\ e.result # Undef

\* C13: every envelope returned by dispatch (its error envelopes included)
\* and by the ADDRESS handler of the Director Bridge (its RPC-error envelope
\* included) carries all four fields: result is present, and is the empty
\* string when the operation has no payload
C13_FullEnvelope ==
    /\ Called => /\ FullShape(lastRan.env)
                 /\ ~lastRan.env.success => lastRan.env.result = Str("")
    /\ \A id \in DOMAIN addrResult :
          /\ FullShape(addrResult[id])
          /\ ~addrResult[id].success => addrResult[id].result = Str("")

\* the method of the call and whether the call reached the dispatch table
Method == parseCommand(lastCall.cmd).method
Registered == Called /\ Has(lastCall.app, "Layers") /\ Method \in RegisteredMethods

\* the error-code ranges declared for the commands
DeclaredRange ==
    [m \in RegisteredMethods |->
        CASE m = "open-image" -> 10..19
          [] m = "resize" -> 20..29
          [] m = "rotate" -> 30..39
          [] m = "flip" -> 40..49
          [] m = "crop" -> 50..59
          [] m = "apply-effect" -> 60..69
          [] m = "add-layer" -> 71..79
          [] m = "delete-layer" -> 80..89
          [] m = "merge-layers" -> 91..99
          [] m = "set-opacity" -> 100..109
          [] m = "save-image" -> 110..119
          [] m = "get-canvas-size" -> 121..129
          [] m = "get-image-data" -> 131..139
          [] m = "get-image-info" -> 141..149
          [] m = "list-effects" -> 151..159
          [] m = "list-layers" -> 161..169
          [] m = "new-image" -> 171..179
          [] m = "undo" -> 181..189
          [] m = "redo" -> 191..199]

\* C14: for every registered method, params and state of an initialized
\* provider the errorCode of the envelope is 0 or lies in the method's
\* declared range
C14_CodeInDeclaredRange ==
    Registered =>
        \/ lastRan.env.errorCode = 0
        \/ lastRan.env.errorCode \in DeclaredRange[Method]

\* the parameters each command requires
RequiredParams ==
    ("open-image" :> {"file"}) @@ ("resize" :> {"width", "height"}) @@ ("rotate" :> {"angle"})
    @@ ("flip" :> {"direction"}) @@ ("crop" :> {"x1", "y1", "x2", "y2"})
    @@ ("apply-effect" :> {"name"}) @@ ("delete-layer" :> {"id"})
    @@ ("set-opacity" :> {"layer", "opacity"}) @@ ("save-image" :> {"output"})

\* the first code of each of these commands' ranges
MissingParamCode ==
    ("open-image" :> 10) @@ ("resize" :> 20) @@ ("rotate" :> 30) @@ ("flip" :> 40)
    @@ ("crop" :> 50) @@ ("apply-effect" :> 60) @@ ("delete-layer" :> 80)
    @@ ("set-opacity" :> 100) @@ ("save-image" :> 110)

\* a required parameter of the command is in neither the command string
\* nor the params given beside it
MissingRequired ==
    /\ Registered
    /\ Method \in DOMAIN RequiredParams
    /\ \E k \in RequiredParams[Method] :
          k \notin DOMAIN parseCommand(lastCall.cmd).params /\ k \notin DOMAIN lastCall.params

\* C15: a command with a required parameter missing returns success=false
\* with the first code of its range and makes no call on the provider,
\* whether or not the capability is available
C15_MissingParameter ==
    MissingRequired =>
        /\ lastRan.env.success = FALSE
        /\ lastRan.env.errorCode = MissingParamCode[Method]
        /\ lastRan.calls = <<>>

\* resize was given a width and no height on a provider without the resize
\* capability, and returned 20
C15_Witness ==
    /\ MissingRequired
    /\ lastCall.cmd = <<"resize", " ", "width", "=", "800">>
    /\ ~HasImageAction(lastCall.app, "resize")
    /\ lastRan.env.errorCode = 20

\* the parameters of the command string
Given == parseCommand(lastCall.cmd).params

\* set-opacity was dispatched with a layer and with a number below 0 or
\* above 1 as opacity
OpacityOutOfRange ==
    /\ Registered
    /\ Method = "set-opacity"
    /\ {"layer", "opacity"} \subseteq DOMAIN Given
    /\ Given["opacity"].t = "number"
    /\ (Given["opacity"].n < 0 \/ Given["opacity"].n > 10)

\* C16: set-opacity with an opacity outside [0,1] returns success=false
\* with errorCode 101 and never calls the provider's setOpacity, whatever
\* the layer and whether or not setOpacity is available
C16_OpacityRange ==
    OpacityOutOfRange =>
        /\ lastRan.env.success = FALSE
        /\ lastRan.env.errorCode = 101
        /\ lastRan.calls = <<>>

\* opacity 1.5 was given for a layer that does not exist, on a provider
\* without setOpacity, and the envelope carries 101
C16_Witness ==
    /\ OpacityOutOfRange
    /\ Given["layer"] = Str("nosuch")
    /\ Given["opacity"] = Num(15)
    /\ ~HasLayerOp(lastCall.app, "setOpacity")
    /\ lastRan.env.errorCode = 101

\* the direction flip was dispatched with, Undef when none was given
Direction == Get(Given, "direction")

FlipDispatched == Registered /\ Method = "flip"

ValidDirection == Direction \in {Str("horizontal"), Str("vertical")}

\* C17: flip with a direction other than "horizontal" and "vertical", or
\* with none, returns success=false, errorCode 40 and the fixed output and
\* does not call the provider; with a valid direction and the capability
\* present it calls the provider's flip once, with that direction, and the
\* envelope carries errorCode 0 when that call completes
C17_Flip ==
    FlipDispatched =>
        IF ~ValidDirection
        THEN /\ lastRan.env.success = FALSE
             /\ lastRan.env.errorCode = 40
             /\ lastRan.env.output = "direction must be \"horizontal\" or \"vertical\""
             /\ lastRan.calls = <<>>
        ELSE HasImageAction(lastCall.app, "flip") =>
                /\ lastRan.calls = <<Call("Actions.Image.flip", <<Direction>>)>>
                /\ ~lastCall.o.fail =>
                      /\ lastRan.env.success = TRUE
                      /\ lastRan.env.errorCode = 0

\* flip direction=invalid was refused with 40 on a provider that has flip
C17_Witness ==
    /\ FlipDispatched
    /\ Direction = Str("invalid")
    /\ HasImageAction(lastCall.app, "flip")
    /\ lastRan.env.errorCode = 40
    /\ lastRan.calls = <<>>

\* the properties of app the handler of a command reads, for the
\* parameters the command was given
Needs(m, args) ==
    CASE m = "open-image" -> {"FileOpen", "FileOpen.readImageFile"}
      [] m = "resize" -> {"Actions", "Actions.Image", "Actions.Image.resize"}
      [] m = "rotate" -> {"Actions", "Actions.Image", "Actions.Image.rotate"}
      [] m = "flip" -> {"Actions", "Actions.Image", "Actions.Image.flip"}
      [] m = "crop" -> {"Actions", "Actions.Image", "Actions.Image.crop"}
      [] m = "new-image" -> {"Actions", "Actions.Image", "Actions.Image.newImage"}
      [] m = "apply-effect" ->
            {"Actions", "Actions.Filters"}
            \cup (IF Get(args, "name").t = "string"
                  THEN {"Actions.Filters." \o Get(args, "name").s} ELSE {})
      [] m = "add-layer" -> {"Layers", "Layers.addLayer"}
      [] m = "delete-layer" -> {"Layers", "Layers.deleteLayer"}
      [] m = "merge-layers" -> {"Layers", "Layers.mergeLayers"}
      [] m = "set-opacity" -> {"Layers", "Layers.setOpacity"}
      [] m = "list-layers" -> {"Layers", "Layers.getLayerList"}
      [] m = "save-image" -> {"FileSave", "FileSave.saveFile"}
      [] m = "get-canvas-size" -> {"State", "State.getCanvasSize"}
      [] m = "get-image-data" -> {"State", "State.getImageData"}
      [] m = "undo" -> {"State", "State.undo"}
      [] m = "redo" -> {"State", "State.redo"}
      [] m = "get-image-info" ->
            {"State", "State.canvas", "Layers", "Layers.getLayerCount",
             "Layers.getCurrentLayer"}
      [] m = "list-effects" -> {}

\* what the provider of the call lacks
Lacking == FullApp \ lastCall.app

\* a registered command was dispatched to a provider that lacks nothing
\* the command needs
NeedsNothingLacking ==
    /\ Called
    /\ Method \in RegisteredMethods
    /\ Needs(Method, Given) \cap Lacking = {}

\* C18: when the provider lacks one capability, every command that does
\* not need it returns the envelope it returns against the complete
\* provider
C18_OnlyThatCommand ==
    NeedsNothingLacking =>
        lastRan.env = run(FullApp, Cmd(lastCall.cmd), lastCall.params, lastCall.o).env

\* undo, which needs State.undo only, was dispatched to a provider lacking
\* Layers and was refused with errorCode 1
C18_Witness ==
    /\ NeedsNothingLacking
    /\ Method = "undo"
    /\ Lacking = Subtree("Layers")
    /\ lastRan.env.errorCode = 1

\* the property of app each handler tests before it calls the provider
Capability(m, args) ==
    IF m = "get-image-info" THEN {"State"} ELSE Needs(m, args)

\* the code each handler returns when that test fails
NotAvailableCode ==
    ("open-image" :> 11) @@ ("resize" :> 21) @@ ("rotate" :> 31) @@ ("flip" :> 41)
    @@ ("crop" :> 51) @@ ("apply-effect" :> 62) @@ ("add-layer" :> 71)
    @@ ("delete-layer" :> 81) @@ ("merge-layers" :> 91) @@ ("set-opacity" :> 102)
    @@ ("save-image" :> 111) @@ ("get-canvas-size" :> 121) @@ ("get-image-data" :> 131)
    @@ ("get-image-info" :> 141) @@ ("list-layers" :> 161) @@ ("new-image" :> 171)
    @@ ("undo" :> 181) @@ ("redo" :> 191)

IsPositive(v) == v.t = "number" /\ v.n > 0

\* the command string gives the command valid parameters
ValidParameters ==
    CASE Method = "open-image" -> Truthy(Get(Given, "file"))
      [] Method = "resize" -> IsPositive(Get(Given, "width")) /\ IsPositive(Get(Given, "height"))
      [] Method = "rotate" -> Get(Given, "angle").t = "number"
      [] Method = "flip" -> ValidDirection
      [] Method = "crop" -> \A k \in {"x1", "y1", "x2", "y2"} : Get(Given, k).t = "number"
      [] Method = "apply-effect" ->
            Get(Given, "name").t = "string" /\ Get(Given, "name").s \in Range(validEffects)
      [] Method = "delete-layer" -> Get(Given, "id") # Undef
      [] Method = "set-opacity" ->
            /\ Get(Given, "layer") # Undef
            /\ Get(Given, "opacity").t = "number"
            /\ Get(Given, "opacity").n \in 0..10
      [] Method = "save-image" -> Truthy(Get(Given, "output"))
      [] OTHER -> TRUE

\* a command was dispatched with valid parameters to a provider without
\* the callable the command needs
CapabilityAbsent ==
    /\ Called
    /\ Method \in DOMAIN NotAvailableCode
    /\ ValidParameters
    /\ ~(Capability(Method, Given) \subseteq lastCall.app)

\* C19: a command dispatched with valid parameters while its provider
\* callable is absent returns success=false with the command's own
\* not-available code and makes no call on the provider
C19_NotAvailable ==
    CapabilityAbsent =>
        /\ lastRan.env.success = FALSE
        /\ lastRan.env.errorCode = NotAvailableCode[Method]
        /\ lastRan.calls = <<>>

\* add-layer was dispatched to a provider without app.Layers, so without
\* addLayer, and returned errorCode 1
C19_Witness ==
    /\ CapabilityAbsent
    /\ Method = "add-layer"
    /\ ~Has(lastCall.app, "Layers")
    /\ lastRan.env.errorCode = 1

---------------------------------------------------------------------------
(* Claims about the worker bridge, checked under SpecWorker *)

\* a message shaped as an rpc-request
RpcRequestShaped(m) == m.data /\ m.type = "rpc-request"

\* the rpc-requests delivered to the worker's listener so far
DeliveredRequests ==
    requestId + Cardinality({m \in foreign : RpcRequestShaped(m)})
    - Cardinality({i \in DOMAIN reqQueue : RpcRequestShaped(reqQueue[i])})

\* every delivered request is either being dispatched or has been answered
\* by one message
AnsweredOnce ==
    DeliveredRequests = Cardinality(running) + Len(inbox) + Len(otherInbox)

\* new is old with one rpc-response bearing id appended
ReplyAppended(old, new, id) ==
    /\ Len(new) = Len(old) + 1
    /\ new = Append(old, new[Len(new)])
    /\ new[Len(new)].type = "rpc-response"
    /\ new[Len(new)].id = id

\* the step posts one rpc-response with the id of the request of r to the
\* window that request came from, and nothing to the other window
RepliesTo(r) ==
    /\ running' = running \ {r}
    /\ IF r.of.source = "director"
       THEN ReplyAppended(inbox, inbox', r.of.id) /\ otherInbox' = otherInbox
       ELSE ReplyAppended(otherInbox, otherInbox', r.of.id) /\ inbox' = inbox

\* the step starts one dispatch, of the method and params of message m
Dispatches(m) ==
    /\ \E o \in BusOutcomes : provLog' = provLog \o run(app, m.method, m.params, o).calls
    /\ \E d \in running' : d \notin running /\ d.of = m /\ running' = running \cup {d}

---------------------------------------------------------------------------
(* Further claims about the control bus, checked under Spec *)

\* the promise of request id was rejected by its timer
TimedOut(id) == id \in DOMAIN promise /\ promise[id].cause = "timeout"

\* the state of the director bridge and of its callers
directorState == <<pendingRequests, requestId, promise, settles, timers, addrResult,
                   calls, sendLog>>

\* C21: timeout is the only cancellation.  The director posts to the worker
\* one rpc-request per sendRPC call and nothing else, in particular nothing
\* in the step in which a timer fires; the worker dispatches the request of
\* a timed-out promise like any other, calling the provider; and the
\* delivery of the worker's response to a timed-out request leaves the
\* director's state unchanged
C21_TimeoutOnlyCancellation ==
    [][/\ reqQueue' # reqQueue =>
            \/ /\ reqQueue # <<>>
               /\ reqQueue' = Tail(reqQueue)
            \/ /\ requestId' = requestId + 1
               /\ reqQueue' = Append(reqQueue, reqQueue'[Len(reqQueue')])
               /\ reqQueue'[Len(reqQueue')].type = "rpc-request"
               /\ reqQueue'[Len(reqQueue')].id = requestId'
       /\ (\E id \in DOMAIN promise : ~TimedOut(id) /\ TimedOut(id)')
            => UNCHANGED <<reqQueue, running, inbox, provLog>>
       /\ (reqQueue # <<>> /\ reqQueue' = Tail(reqQueue) /\ TimedOut(Head(reqQueue).id))
            => /\ \E o \in BusOutcomes :
                    LET r == run(app, Head(reqQueue).method, Head(reqQueue).params, o)
                    IN /\ provLog' = provLog \o r.calls
                       /\ \E d \in running' : d.id = Head(reqQueue).id /\ d.env = r.env
               /\ UNCHANGED directorState
       /\ (Delivery /\ Head(inbox).source = "worker" /\ TimedOut(Head(inbox).id))
            => UNCHANGED directorState]_vars

\* both requests have timed out: the worker ran undo on the provider and its
\* reply was dropped by the director, whose promise is still the timeout
\* rejection; the second request is still on its way to the worker
C21_Witness ==
    /\ requestId = 2
    /\ sendLog = <<1, 2>>
    /\ calls[1].method = Cmd(<<"undo">>)
    /\ TimedOut(1)
    /\ TimedOut(2)
    /\ \E i \in DOMAIN reqQueue : reqQueue[i].id = 2
    /\ Answered(1)
    /\ inbox = <<>>
    /\ provLog = <<Call("State.undo", <<>>)>>

---------------------------------------------------------------------------
(* Claims about the execute-rexx meta-command, checked under SpecDispatch *)

\* the wrapped handler was called and took the command as execute-rexx
MetaCalled == metaRan # NoCall /\ metaRan.ran.meta

\* the script payload of the call
Payload == ScriptContent(metaRan.cmd, metaRan.params)

\* the embedded script was handed to the parser, which rejected it
ParseFailed == Payload # "" /\ metaRan.loaded /\ ~Parse(Payload).ok

\* C22: a failure of execute-rexx caused by a missing or unextractable
\* script payload, or by a parse failure of the embedded script, returns an
\* errorCode of 200 or more
C22_MetaFailureCodes ==
    (MetaCalled /\ (Payload = "" \/ ParseFailed)) =>
        /\ metaRan.ran.env.success = FALSE
        /\ metaRan.ran.env.errorCode >= 200

\* the inline script "SAY (" failed to parse and the envelope carries 2
C22_Witness ==
    /\ MetaCalled
    /\ ParseFailed
    /\ Payload = "SAY ("
    /\ metaRan.ran.env.errorCode = 2

\* a script was parsed and run by the call
ScriptRan ==
    /\ MetaCalled
    /\ Payload # ""
    /\ metaRan.loaded
    /\ Parse(Payload).ok

\* the commands of the script
Statements == Parse(Payload).commands

\* the script's state after its first k statements
After(k) ==
    ExecuteCommands(SubSeq(Statements, 1, k), ScriptState(metaRan.hasVariables),
                    metaRan.app, metaRan.o, Truthy(Get(metaRan.params, "stopOnError")))

\* statement k is an ADDRESS directive and was executed
DirectiveRan(k) == Statements[k].type = "ADDRESS" /\ After(k).executed = k

\* the envelope dispatch returns for the directive that is statement k
EnvelopeOf(k) == run(metaRan.app, Cmd(Statements[k].command), NoParams, metaRan.o).env

\* the script variables v hold the errorCode of envelope e as RC, and as
\* RESULT its result if that is not empty and its output otherwise
Reflects(v, e) ==
    /\ v # NoCall
    /\ {"RC", "RESULT"} \subseteq DOMAIN v
    /\ v["RC"] = Num(10 * e.errorCode)
    /\ v["RESULT"] = IF e.result \in {Undef, Str("")} THEN Str(e.output) ELSE e.result

\* C23: after every ADDRESS MINIPAINT directive a script executes, RC is the
\* errorCode of the envelope dispatch returned for it and RESULT is the
\* envelope's result, or its output when the result is empty
C23_RcAndResult ==
    ScriptRan =>
        \A k \in 1..Len(Statements) :
            DirectiveRan(k) => Reflects(After(k).variables, EnvelopeOf(k))

\* a script whose only statement is ADDRESS MINIPAINT 'undo' ran on an
\* interpreter without a variables object, and no RC was set
C23_Witness ==
    /\ ScriptRan
    /\ Payload = "ADDRESS MINIPAINT 'undo'"
    /\ DirectiveRan(1)
    /\ ~metaRan.hasVariables
    /\ metaRan.ran.script.st.variables = NoCall

\* the script was called with options.stopOnError
StopOnError == Truthy(Get(metaRan.params, "stopOnError"))

\* statement k is an ADDRESS directive whose dispatch returns a failure
FailsAt(k) == Statements[k].type = "ADDRESS" /\ EnvelopeOf(k).errorCode # 0

\* the number of statements the script executes: all of them, or with
\* stopOnError those up to its first failing directive
Executed ==
    IF StopOnError /\ \E k \in 1..Len(Statements) : FailsAt(k)
    THEN CHOOSE k \in 1..Len(Statements) : FailsAt(k) /\ \A j \in 1..(k - 1) : ~FailsAt(j)
    ELSE Len(Statements)

IsSay(c) == c.type = "SAY"
IsAddress(c) == c.type = "ADDRESS"

\* the SAY values and the directives' commands among the first n statements,
\* in script order
SayValues(n) ==
    LET says == SelectSeq(SubSeq(Statements, 1, n), IsSay)
    IN [i \in 1..Len(says) |-> says[i].value]
DirectiveCommands(n) ==
    LET directives == SelectSeq(SubSeq(Statements, 1, n), IsAddress)
    IN [i \in 1..Len(directives) |-> directives[i].command]

\* the provider calls of the directives among the first n statements, each
\* directive's calls after those of the directives before it
RECURSIVE ProviderCalls(_)
ProviderCalls(n) ==
    IF n = 0 THEN <<>>
    ELSE ProviderCalls(n - 1)
         \o (IF IsAddress(Statements[n])
             THEN run(metaRan.app, Cmd(Statements[n].command), NoParams, metaRan.o).calls
             ELSE <<>>)

\* the run of the script's first n statements, in order and each directive
\* complete before the next statement: the directives dispatched, the provider
\* calls made and the SAY lines captured
RanInOrder(n) ==
    /\ metaRan.ran.script.st.executed = n
    /\ metaRan.ran.script.st.dispatched = DirectiveCommands(n)
    /\ metaRan.ran.script.st.calls = ProviderCalls(n)
    /\ metaRan.ran.script.st.output = SayValues(n)

\* C29 as stated: the statements of a script run by executeRexxScript are
\* executed strictly in script order, each ADDRESS directive's dispatch
\* completing before the next statement starts; the captured output lists the
\* SAY values in script order and contains every SAY statement of the script
C29_EverySay ==
    ScriptRan =>
        /\ RanInOrder(Len(Statements))
        /\ metaRan.ran.env.output = JoinWith(SayValues(Len(Statements)), "\n")

\* C29, amended: the statements executed are run strictly in script order,
\* each ADDRESS directive's dispatch completing before the next statement
\* starts; they are all the statements of the script, unless stopOnError is
\* set and a directive fails, which ends the script at that directive; the
\* captured output lists the SAY values of the executed statements in script
\* order, less the blank lines at its start and end
C29_ExecutedSays ==
    ScriptRan =>
        /\ RanInOrder(Executed)
        /\ metaRan.ran.env.output = JoinWith(TrimLines(SayValues(Executed)), "\n")

\* a script of a failing resize, a SAY and a get-canvas-size ran with
\* stopOnError: it ended at the resize, and the SAY is not in the output
C29_Witness ==
    /\ ScriptRan
    /\ Len(Statements) = 3
    /\ StopOnError
    /\ FailsAt(1)
    /\ IsSay(Statements[2])
    /\ metaRan.ran.script.st.executed = 1
    /\ metaRan.ran.script.st.dispatched = <<Statements[1].command>>
    /\ metaRan.ran.env.output = ""

\* the directives the script ran that returned a nonzero errorCode
FailedDirectives == {k \in 1..Executed : FailsAt(k)}

\* the last of them
LastFailed == CHOOSE k \in FailedDirectives : \A j \in FailedDirectives : j <= k

\* C38: executeRexxScript reports success exactly when its returnCode is 0,
\* and its returnCode is 0 exactly when the script parsed and every ADDRESS
\* directive it ran returned errorCode 0; once a directive has failed, later
\* successful directives never reset returnCode to 0, and the final
\* returnCode is the errorCode of the last directive that failed
C38_ReturnCode ==
    (MetaCalled /\ Payload # "") =>
        /\ metaRan.ran.script.success <=> metaRan.ran.script.returnCode = 0
        /\ metaRan.ran.script.returnCode = 0 <=>
               (ScriptRan /\ (\A k \in 1..Executed : ~FailsAt(k)))
        /\ (ScriptRan /\ FailedDirectives # {}) =>
               metaRan.ran.script.returnCode = EnvelopeOf(LastFailed).errorCode

\* the script of a resize with width 0, a SAY and a get-canvas-size ran to
\* its end on a provider that reports its size: the resize failed with 20,
\* get-canvas-size succeeded after it, and the returnCode is 20
C38_Witness ==
    /\ ScriptRan
    /\ ~StopOnError
    /\ Len(Statements) = 3
    /\ FailedDirectives = {1}
    /\ metaRan.ran.script.st.executed = 3
    /\ EnvelopeOf(3).errorCode = 0
    /\ EnvelopeOf(3).success = TRUE
    /\ metaRan.ran.script.returnCode = 20
    /\ metaRan.ran.script.success = FALSE

\* statement k of the script was executed
RanStatement(k) == k <= metaRan.ran.script.st.executed

\* a directive before statement k returns a nonzero errorCode
FailureBefore(k) == \E j \in 1..(k - 1) : FailsAt(j)

\* C39: with the stopOnError option set, executeRexxScript dispatches no
\* ADDRESS directive and runs no statement after the first directive that
\* returns a nonzero errorCode; without the option, every statement of the
\* script is still executed after a failing directive
C39_StopOnError ==
    ScriptRan =>
        /\ \A k \in 1..Len(Statements) :
              RanStatement(k) <=> ~(StopOnError /\ FailureBefore(k))
        /\ Len(metaRan.ran.script.st.dispatched) =
              Cardinality({k \in 1..Len(Statements) :
                              IsAddress(Statements[k]) /\ ~(StopOnError /\ FailureBefore(k))})
        /\ Len(metaRan.ran.script.st.output) =
              Cardinality({k \in 1..Len(Statements) :
                              IsSay(Statements[k]) /\ ~(StopOnError /\ FailureBefore(k))})

\* the script of a flip without direction, an unknown command and a SAY ran
\* with stopOnError: the flip failed, and neither the unknown command was
\* dispatched nor the SAY executed
C39_Witness ==
    /\ ScriptRan
    /\ StopOnError
    /\ Payload = "ADDRESS MINIPAINT 'flip'; ADDRESS MINIPAINT 'bogus'; SAY end"
    /\ FailsAt(1)
    /\ FailsAt(2)
    /\ ~RanStatement(2)
    /\ metaRan.ran.script.st.dispatched = <<(<<"flip">>)>>
    /\ metaRan.ran.script.st.output = <<>>
    /\ metaRan.ran.script.returnCode = 40

\* the command string given to the wrapped handler begins with execute-rexx
HasPrefix == Len(metaRan.cmd) > 0 /\ metaRan.cmd[1] = "execute-rexx"

\* the script parameter when one is given with a non-empty value, otherwise
\* the text between the quotes of the command string's script="..."
DescribedPayload ==
    IF "script" \in DOMAIN metaRan.params /\ metaRan.params["script"] # Str("")
    THEN ToStr(metaRan.params["script"])
    ELSE InlineScript(metaRan.cmd)

\* what the original handler returns for the call's command string and params
Original == run(metaRan.app, Cmd(metaRan.cmd), metaRan.params, metaRan.o)

\* C28: a command is handled as the execute-rexx meta-command exactly when
\* its command string starts with "execute-rexx"; the script it runs is the
\* script parameter if present and otherwise the text of an inline
\* script="..." of the command string; every other command goes to the
\* original handler with the same command string and params, and the
\* envelope of that handler is returned unchanged
C28_MetaDetection ==
    metaRan # NoCall =>
        /\ metaRan.ran.meta <=> HasPrefix
        /\ metaRan.ran.meta =>
               IF DescribedPayload = ""
               THEN metaRan.ran.script = NoCall /\ metaRan.ran.env.errorCode = 200
               ELSE metaRan.ran.script =
                        executeRexxScript(metaRan.app, DescribedPayload, metaRan.params,
                                          metaRan.o, metaRan.loaded, metaRan.hasVariables)
        /\ ~metaRan.ran.meta =>
               /\ metaRan.ran.script = NoCall
               /\ metaRan.ran.env = Original.env
               /\ metaRan.ran.calls = Original.calls

\* execute-rexx script="SAY hi" was called with the script parameter
\* ADDRESS MINIPAINT 'undo': the parameter's script ran, and undid
C28_Witness ==
    /\ metaRan # NoCall
    /\ HasPrefix
    /\ InlineScript(metaRan.cmd) = "SAY hi"
    /\ Get(metaRan.params, "script") = Str("ADDRESS MINIPAINT 'undo'")
    /\ metaRan.loaded
    /\ metaRan.ran.script # NoCall
    /\ metaRan.ran.script.st.dispatched = <<(<<"undo">>)>>
    /\ metaRan.ran.script.st.output = <<>>
    /\ metaRan.ran.calls = <<Call("State.undo", <<>>)>>

---------------------------------------------------------------------------
(* Further claims about the dispatch table, checked under SpecDispatch *)

\* the apply-effect examples of MINIPAINT_COMMANDS.md: the effect each
\* names and the effect parameters it gives
DocumentedEffects ==
    (<<"apply-effect", " ", "blur", " ", "radius", "=", "5">>
        :> [name |-> "blur", effectParams |-> ("radius" :> Num(50))])
    @@ (<<"apply-effect", " ", "sharpen", " ", "amount", "=", "1.5">>
        :> [name |-> "sharpen", effectParams |-> ("amount" :> Num(15))])
    @@ (<<"apply-effect", " ", "sepia">>
        :> [name |-> "sepia", effectParams |-> NoParams])

\* one of the documented examples was dispatched to an initialized provider
\* that has the filter, and the provider's filter does not fail
DocumentedEffectDispatched ==
    /\ Called
    /\ lastCall.cmd \in DOMAIN DocumentedEffects
    /\ Has(lastCall.app, "Layers")
    /\ HasFilter(lastCall.app, DocumentedEffects[lastCall.cmd].name)
    /\ ~lastCall.o.fail

\* C24: the documented command strings "apply-effect blur radius=5",
\* "apply-effect sharpen amount=1.5" and "apply-effect sepia" apply the
\* named effect with the given parameters and return errorCode 0
C24_DocumentedApplyEffect ==
    DocumentedEffectDispatched =>
        LET d == DocumentedEffects[lastCall.cmd]
        IN /\ lastRan.env.success = TRUE
           /\ lastRan.env.errorCode = 0
           /\ lastRan.calls = <<Call("Actions.Filters." \o d.name, <<d.effectParams>>)>>

\* "apply-effect blur radius=5" on the complete provider returned 60 and
\* called no filter
C24_Witness ==
    /\ DocumentedEffectDispatched
    /\ lastCall.cmd = <<"apply-effect", " ", "blur", " ", "radius", "=", "5">>
    /\ lastCall.app = FullApp
    /\ lastRan.env.errorCode = 60
    /\ lastRan.calls = <<>>

\* the positions of command string s where a token starts: a lexeme that is
\* not whitespace, at the start or after whitespace
TokenStarts(s) ==
    {i \in DOMAIN s : s[i] \notin Whitespace /\ (i = 1 \/ s[i - 1] \in Whitespace)}

\* the token of s that starts at i: the lexemes up to the next whitespace
TokenAt(s, i) ==
    LET end == CHOOSE j \in i..Len(s) :
                   /\ \A k \in i..j : s[k] \notin Whitespace
                   /\ j = Len(s) \/ s[j + 1] \in Whitespace
    IN SubSeq(s, i, end)

\* where the first token of s starts
MethodStart(s) == CHOOSE i \in TokenStarts(s) : \A j \in TokenStarts(s) : i <= j

\* the starts of the later tokens of s
LaterTokens(s) == TokenStarts(s) \ {MethodStart(s)}

Equals(t) == {k \in DOMAIN t : t[k] = "="}

\* token t has the form key=value
KeyValue(t) == Cardinality(Equals(t)) = 1 /\ t[1] # "="

KeyOf(t) == Join(SubSeq(t, 1, (CHOOSE k \in Equals(t) : TRUE) - 1))
RawValueOf(t) == Join(SubSeq(t, (CHOOSE k \in Equals(t) : TRUE) + 1, Len(t)))

\* the coercion the parser is described to make
Coerced(text) ==
    CASE text = "true" -> Bool(TRUE)
      [] text = "false" -> Bool(FALSE)
      [] text \in DOMAIN NumericLiterals -> Num(NumericLiterals[text])
      [] OTHER -> Str(text)

\* every later token of s is a key=value token or has no '='
PlainTokens(s) ==
    \A i \in LaterTokens(s) : KeyValue(TokenAt(s, i)) \/ Equals(TokenAt(s, i)) = {}

\* the method and params described for s: the params of the key=value
\* tokens, a later token overriding an earlier one with the same key
Described(s) ==
    LET kv == {i \in LaterTokens(s) : KeyValue(TokenAt(s, i))}
        keys == {KeyOf(TokenAt(s, i)) : i \in kv}
        last(key) == CHOOSE i \in kv :
                        /\ KeyOf(TokenAt(s, i)) = key
                        /\ \A j \in kv : KeyOf(TokenAt(s, j)) = key => j <= i
    IN [method |-> Join(TokenAt(s, MethodStart(s))),
        params |-> [key \in keys |-> Coerced(RawValueOf(TokenAt(s, last(key))))]]

\* a command string with a token in it was dispatched, and its later tokens
\* are key=value tokens or hold no '='
ParsedPlain ==
    /\ Called
    /\ TokenStarts(lastCall.cmd) # {}
    /\ PlainTokens(lastCall.cmd)

\* C25: parse splits the command on runs of whitespace, takes the first
\* token as method and maps the key of every later key=value token to its
\* coerced value (true and false to booleans, numeric literals to numbers,
\* anything else a string); tokens without '=' are ignored without error;
\* the handler of a registered method receives these params
C25_Parse ==
    ParsedPlain =>
        /\ parseCommand(lastCall.cmd) = Described(lastCall.cmd)
        /\ Registered => lastRan.args = Described(lastCall.cmd).params

\* "apply-effect blur radius=5" was parsed to method apply-effect and
\* params {radius: 5}, which the apply-effect handler received
C25_Witness ==
    /\ ParsedPlain
    /\ lastCall.cmd = <<"apply-effect", " ", "blur", " ", "radius", "=", "5">>
    /\ Has(lastCall.app, "Layers")
    /\ lastRan.handler = "apply-effect"
    /\ lastRan.args = ("radius" :> Num(50))
    /\ parseCommand(lastCall.cmd) = [method |-> "apply-effect", params |-> ("radius" :> Num(50))]

\* the effect names list-effects returns
ListedEffects ==
    {"blur", "sharpen", "emboss", "sepia", "invert", "posterize", "grayscale",
     "brightness", "contrast", "saturation"}

\* dispatch("apply-effect", {name: n}) on an initialized provider
ApplyEffectWithName ==
    /\ Called
    /\ Has(lastCall.app, "Layers")
    /\ lastCall.cmd = <<"apply-effect">>
    /\ DOMAIN lastCall.params = {"name"}
    /\ lastCall.params["name"].t = "string"

\* C26: dispatch("apply-effect", {name: n}) with n not among the names
\* list-effects returns gives success=false, errorCode 61 and an "Unknown
\* effect" output and calls no filter; with n among them it does not give 61
C26_EffectNames ==
    /\ Range(validEffects) = ListedEffects
    /\ ApplyEffectWithName =>
          IF lastCall.params["name"].s \notin ListedEffects
          THEN /\ lastRan.env.success = FALSE
               /\ lastRan.env.errorCode = 61
               /\ lastRan.env.output = "Unknown effect: " \o lastCall.params["name"].s
               /\ lastRan.calls = <<>>
          ELSE lastRan.env.errorCode # 61

\* dispatch("apply-effect", {name: "nonexistent"}) on the complete provider
\* returned 60, the code of a missing name
C26_Witness ==
    /\ ApplyEffectWithName
    /\ lastCall.app = FullApp
    /\ lastCall.params["name"] = Str("nonexistent")
    /\ lastRan.env.errorCode = 60

---------------------------------------------------------------------------
(* Claims about both listeners, checked under SpecListeners *)

\* a message that is an envelope of the given type
EnvelopeOfType(m, type) == m.data /\ m.type = type

\* C27: a message delivered to a bridge's listener that is not an envelope
\* of the type the bridge expects (no data, another type, unrelated
\* traffic) is ignored.  No exception escapes either listener; such a
\* message leaves the director's pending table and promises unchanged, and
\* makes the worker run no dispatch, post no reply and change nothing in
\* the provider; the listeners go on serving: a delivered rpc-request is
\* dispatched and a delivered rpc-response with a pending entry settles it
C27_BadMessagesIgnored ==
    [][/\ uncaught' = 0
       /\ (reqQueue # <<>> /\ reqQueue' = Tail(reqQueue))
            => IF EnvelopeOfType(Head(reqQueue), "rpc-request")
               THEN Dispatches(Head(reqQueue))
               ELSE UNCHANGED <<running, provLog, app, inbox, otherInbox>>
       /\ Delivery
            => IF EnvelopeOfType(Head(inbox), "rpc-response")
               THEN Head(inbox).id \in DOMAIN pendingRequests =>
                        /\ Head(inbox).id \notin DOMAIN pendingRequests'
                        /\ Settled(promise'[Head(inbox).id])
               ELSE UNCHANGED <<pendingRequests, promise, settles, timers, addrResult,
                                requestId>>]_vars

\* every kind of foreign message has been delivered to the worker, both
\* requests of the director have been dispatched, answered and settled, a
\* message without data is the next the director's listener takes, and no
\* exception has escaped
C27_Witness ==
    /\ foreign = WorkerNoise
    /\ reqQueue = <<>>
    /\ running = {}
    /\ requestId = 2
    /\ \A id \in 1..2 : promise[id].state = "resolved" /\ promise[id].msg.source = "worker"
    /\ inbox # <<>>
    /\ ~Head(inbox).data
    /\ uncaught = 0


\* the commands that take no parameters
BareCommands == {<<"get-canvas-size">>, <<"undo">>, <<"redo">>, <<"list-effects">>}

\* one of them was dispatched as a bare command string against an
\* initialized provider
BareDispatched ==
    /\ Called
    /\ lastCall.cmd \in BareCommands
    /\ Has(lastCall.app, "Layers")

\* the provider has what the command calls, and its call returns
SupportedBy(cmd) ==
    /\ cmd = <<"get-canvas-size">> => HasStateOp(lastCall.app, "getCanvasSize")
    /\ cmd = <<"undo">> => HasStateOp(lastCall.app, "undo")
    /\ cmd = <<"redo">> => HasStateOp(lastCall.app, "redo")
    /\ cmd # <<"list-effects">> => ~lastCall.o.fail

\* JSON.stringify({ width, height }) of the size the provider reports
SizeJson ==
    "{\"width\":" \o NumToString(lastCall.o.w) \o ",\"height\":"
        \o NumToString(lastCall.o.h) \o "}"

\* a JSON array of effect names, "blur" among them
EffectsJson ==
    "[\"blur\",\"sharpen\",\"emboss\",\"sepia\",\"invert\",\"posterize\","
        \o "\"grayscale\",\"brightness\",\"contrast\",\"saturation\"]"

\* C30: get-canvas-size, undo, redo and list-effects, dispatched as a bare
\* command string against an initialized provider that supports them, return
\* success = true and errorCode = 0; the result of get-canvas-size is the JSON
\* encoding of the width and height the provider reports, and the result of
\* list-effects is a JSON array containing "blur"
C30_BareCommands ==
    (BareDispatched /\ SupportedBy(lastCall.cmd)) =>
        /\ lastRan.env.success = TRUE
        /\ lastRan.env.errorCode = 0
        /\ lastCall.cmd = <<"get-canvas-size">> =>
               /\ lastRan.env.result = Str(SizeJson)
               /\ lastRan.calls = <<Call("State.getCanvasSize", <<>>)>>
        /\ lastCall.cmd = <<"undo">> => lastRan.calls = <<Call("State.undo", <<>>)>>
        /\ lastCall.cmd = <<"redo">> => lastRan.calls = <<Call("State.redo", <<>>)>>
        /\ lastCall.cmd = <<"list-effects">> =>
               /\ lastRan.env.result = Str(EffectsJson)
               /\ lastRan.calls = <<>>

\* get-canvas-size was dispatched with no params against a provider that
\* reports 800 by 600
C30_Witness ==
    /\ BareDispatched
    /\ lastCall.cmd = <<"get-canvas-size">>
    /\ lastCall.params = NoParams
    /\ SupportedBy(lastCall.cmd)
    /\ lastRan.env.success = TRUE
    /\ lastRan.env.errorCode = 0
    /\ lastRan.env.output = "Canvas size: 800x600"
    /\ lastRan.env.result = Str("{\"width\":800,\"height\":600}")


\* the value the command string gives for key, or the documented default
\* when the string has no such key
OrDefault(key, default) == IF key \in DOMAIN Given THEN Given[key] ELSE default

\* a registered command was dispatched with the optional parameter key
\* left out of its command string
Omitted(method, key) == Registered /\ Method = method /\ key \notin DOMAIN Given

\* the outcome of a command whose provider call is call: the provider was
\* called with exactly that, and the command succeeded if the call returned
Performs(call) ==
    /\ lastRan.calls = <<call>>
    /\ ~lastCall.o.fail => lastRan.env.success = TRUE /\ lastRan.env.errorCode = 0

\* C31: when an optional parameter is omitted the command uses its
\* documented default and does not fail for a missing parameter: new-image
\* without width or height creates the image 800 wide or 600 high, add-layer
\* without name adds a layer named "Layer", and save-image without format
\* saves with format "png"
C31_Defaults ==
    /\ ((Omitted("new-image", "width") \/ Omitted("new-image", "height"))
          /\ HasImageAction(lastCall.app, "newImage")) =>
            Performs(Call("Actions.Image.newImage",
                          <<OrDefault("width", Num(8000)), OrDefault("height", Num(6000))>>))
    /\ (Omitted("add-layer", "name") /\ HasLayerOp(lastCall.app, "addLayer")) =>
            Performs(Call("Layers.addLayer", <<Str("Layer")>>))
    /\ (Omitted("save-image", "format") /\ "output" \in DOMAIN Given
          /\ Has(lastCall.app, "FileSave") /\ Has(lastCall.app, "FileSave.saveFile")) =>
            Performs(Call("FileSave.saveFile", <<Given["output"], Str("png")>>))

\* new-image width=400 was dispatched: the image created is 400 by 600
C31_Witness ==
    /\ Omitted("new-image", "height")
    /\ Given = ("width" :> Num(4000))
    /\ ~lastCall.o.fail
    /\ lastRan.calls = <<Call("Actions.Image.newImage", <<Num(4000), Num(6000)>>)>>
    /\ lastRan.env.success = TRUE
    /\ lastRan.env.output = "Created new image: 400x600"


\* a registered command called the provider, and the callable threw or
\* rejected
ProviderFailed == Registered /\ lastRan.calls # <<>> /\ lastCall.o.fail

\* the highest code of a method's declared range
FailureCode(m) == CHOOSE c \in DeclaredRange[m] : \A d \in DeclaredRange[m] : d <= c

\* C37: if the provider's callable throws or rejects while a command runs,
\* the dispatch envelope is success = false with that command's
\* ProviderFailure code, the highest code of its range (99 for merge-layers),
\* with output equal to the failure's message
C37_ProviderFailure ==
    ProviderFailed =>
        /\ lastRan.env.success = FALSE
        /\ lastRan.env.errorCode = FailureCode(Method)
        /\ lastRan.env.output = ProviderMessage

\* rotate angle=90 was dispatched, the provider's rotate threw undefined,
\* and the envelope carries 99 and the message of a TypeError
C37_Witness ==
    /\ ProviderFailed
    /\ Method = "rotate"
    /\ lastCall.o.thrown = "undefined"
    /\ lastRan.calls = <<Call("Actions.Image.rotate", <<Num(900)>>)>>
    /\ lastRan.env.errorCode = 99
    /\ lastRan.env.output = "Error: Cannot read properties of undefined (reading 'message')"

\* token t has a key and more than one '='
SeveralEquals(t) == Cardinality(Equals(t)) > 1 /\ t[1] # "="

FirstEquals(t) == CHOOSE k \in Equals(t) : \A j \in Equals(t) : k <= j

\* the key of such a token, and the whole text after its first '='
KeyBefore(t) == Join(SubSeq(t, 1, FirstEquals(t) - 1))
TextAfter(t) == Join(SubSeq(t, FirstEquals(t) + 1, Len(t)))

\* the later tokens of the dispatched command string that have several '='
SeveralEqualsTokens ==
    {TokenAt(lastCall.cmd, i) : i \in {j \in LaterTokens(lastCall.cmd) :
                                         SeveralEquals(TokenAt(lastCall.cmd, j))}}

\* C40: for a parameter token that contains more than one '=' (file=a=b, a
\* URL with a query string), parse keeps the whole text after the first '='
\* as the parameter's value, so no part of the value is lost
C40_WholeValue ==
    (Called /\ TokenStarts(lastCall.cmd) # {}) =>
        \A t \in SeveralEqualsTokens :
            /\ KeyBefore(t) \in DOMAIN Given
            /\ Given[KeyBefore(t)] = Coerced(TextAfter(t))

\* open-image file=a=b was dispatched: the handler received the file "a"
C40_Witness ==
    /\ Registered
    /\ lastCall.cmd = <<"open-image", " ", "file", "=", "a", "=", "b">>
    /\ SeveralEqualsTokens = {<<"file", "=", "a", "=", "b">>}
    /\ TextAfter(<<"file", "=", "a", "=", "b">>) = "a=b"
    /\ lastRan.args = ("file" :> Str("a"))
    /\ lastRan.env.output \in {"Loaded image: a", "FileOpen not available"}

---------------------------------------------------------------------------
(* Claims about parseCommand alone, checked under SpecParse *)

\* s has a method token and every later token of it has the form key=value
WellFormed(s) ==
    /\ TokenStarts(s) # {}
    /\ \A i \in LaterTokens(s) : KeyValue(TokenAt(s, i))

\* the calls made so far that parsed a well-formed string returned equal
\* method and params whenever the string was the same
SameStringSameResult(made) ==
    \A i, j \in DOMAIN made :
        (WellFormed(made[i].cmd) /\ made[i].cmd = made[j].cmd) => made[i].out = made[j].out

---------------------------------------------------------------------------
(* Claims about the senders on the message channel, checked under Spec *)

\* the promise of request id was settled by a message
SettledByMessage(id) == promise[id].state # "pending" /\ promise[id].cause = "response"

\* C34: a pending request is settled only by its own timeout or by the
\* rpc-response that the worker posted for that request: an rpc-response
\* from any other sender, even one that carries the id of a pending request,
\* does not resolve or reject that request
C34_OnlyWorkersResponse ==
    \A id \in DOMAIN promise :
        SettledByMessage(id) =>
            /\ promise[id].msg.source = "worker"
            /\ promise[id].msg.id = id

\* request 1 was resolved with the value of an rpc-response that another
\* window posted, while the request was still in the worker's queue
C34_Witness ==
    /\ requestId = 1
    /\ Len(reqQueue) = 1
    /\ provLog = <<>>
    /\ promise[1].state = "resolved"
    /\ promise[1].msg.source = "other"
    /\ promise[1].value = Env(TRUE, 0, "forged", Str(""))
    /\ pendingRequests = EmptyMap
    /\ timers = {}

---------------------------------------------------------------------------
(* Claims about two director bridges, checked under SpecTwoBridges *)

\* response m answers a request of the second bridge: its callers send
\* redo, which the callers of the first bridge never send
AnswersSecond(m) == m.of.method = Cmd(<<"redo">>)

\* C35: when two director bridges exist in the same director context, each
\* with its own id counter starting at 1 and its own listener on the same
\* message channel, a response to a request sent by one instance never
\* settles a pending request of the other instance
C35_NoCrossSettle ==
    /\ \A id \in DOMAIN promise :
          SettledByMessage(id) => ~AnswersSecond(promise[id].msg)
    /\ \A id \in DOMAIN second.promise :
          second.promise[id].state # "pending" => AnswersSecond(second.promise[id].msg)

\* each bridge sent its request 1, the worker answered the first bridge's
\* undo, and that response settled request 1 of both bridges; the redo of
\* the second bridge is still in the worker's queue
C35_Witness ==
    /\ requestId = 1
    /\ second.requestId = 1
    /\ provLog = <<Call("State.undo", <<>>)>>
    /\ Len(reqQueue) = 1
    /\ AnswersSecond([of |-> Head(reqQueue)])
    /\ promise[1].state = "resolved"
    /\ second.promise[1].state = "resolved"
    /\ second.promise[1].msg = promise[1].msg
    /\ second.pendingRequests = EmptyMap

---------------------------------------------------------------------------
(* Claims about the ADDRESS handler, checked under SpecAddress *)

\* v is no response envelope: nothing, or a primitive
Malformed(v) == v = Undef \/ IsPrimitive(v)

\* the sendRPC behind ADDRESS call id was rejected, or resolved with a
\* malformed value
RpcFailed(id) ==
    \/ promise[id].state = "rejected"
    \/ promise[id].state = "resolved" /\ Malformed(promise[id].value)

\* envelope e reports an RPC error: success = false, errorCode = 99, no
\* result, and an output that starts with "RPC Error: "
IsRpcError(e, id) ==
    /\ e.errorCode = 99
    /\ e.success = FALSE
    /\ e.result = Undef
    /\ e.output \in {"RPC Error: " \o promise[id].error,
                      "RPC Error: Cannot read properties of undefined (reading 'success')"}

\* C36: the handler returned by createAddressHandler never rejects and never
\* throws: every rejection of the underlying sendRPC (timeout or error
\* response) and every malformed resolved value is returned as an envelope
\* with success = false, errorCode = 99 and output starting with
\* "RPC Error: ", and an envelope with errorCode 99 is returned only in
\* those cases
C36_RpcErrorEnvelope ==
    \A id \in DOMAIN addrResult :
        /\ RpcFailed(id) => IsRpcError(addrResult[id], id)
        /\ addrResult[id].errorCode = 99 => RpcFailed(id)

\* ADDRESS call 1 sent undo, a response with the string "ok" as result
\* resolved it, and the handler returned an envelope without success and
\* with errorCode 0
C36_Witness ==
    /\ 1 \in DOMAIN addrResult
    /\ calls[1].command = <<"undo">>
    /\ promise[1].state = "resolved"
    /\ promise[1].value = Str("ok")
    /\ addrResult[1] = Env(Undef, 0, "", Str(""))

---------------------------------------------------------------------------
(* Claims about the control bus under its scheduling, checked under SpecLive *)

\* request id is in the pending table
IsPending(id) == id \in DOMAIN pendingRequests

\* the promise of request id is settled and its entry has left the table
SettledAndGone(id) ==
    /\ id \in DOMAIN promise
    /\ promise[id].state # "pending"
    /\ ~IsPending(id)

\* C33: every sendRPC call eventually settles and its id eventually leaves
\* the pending table, even if the worker never answers or its answer is lost
C33_EventuallySettled ==
    \A id \in 1..MaxSends : IsPending(id) ~> SettledAndGone(id)

\* two requests were sent and neither reached the worker's listener: both
\* are still in its queue, both promises were rejected by their timers and
\* the pending table is empty
C33_Witness ==
    /\ requestId = 2
    /\ Len(reqQueue) = 2
    /\ running = {}
    /\ inbox = <<>>
    /\ provLog = <<>>
    /\ TimedOut(1)
    /\ TimedOut(2)
    /\ SettledAndGone(1)
    /\ SettledAndGone(2)
    /\ timers = {}

=============================================================================
